---------------------------- MODULE Spec2Model ----------------------------
(***************************************************************************)
(* A model of the RESP key-value server: the value model (resp/mod.rs),    *)
(* the encoder (resp/serialize.rs), the decoder (resp/deserialize.rs),     *)
(* the command model (cmd/mod.rs), the storage engine (backend/mod.rs),    *)
(* the codec (codec.rs) and the connection driver (main.rs).               *)
(*                                                                         *)
(* Bytes are their ASCII codes.  A byte buffer (BytesMut, Vec<u8>, String) *)
(* is a sequence of bytes.                                                 *)
(***************************************************************************)
EXTENDS Integers, Sequences, FiniteSets, TLC

(***************************** bytes ***************************************)
CR == 13
LF == 10
TagSimpleString == 43
TagSimpleError == 45
TagInteger == 58
TagBulkString == 36
TagArray == 42
TagNull == 95
TagBoolean == 35
TagDouble == 44
TagBulkError == 33
TagMap == 37
TagSet == 126
ByteT == 116
ByteF == 102
ByteDot == 46
ByteLowerE == 101
ByteUpperE == 69
ByteZero == 48
ByteNine == 57
BytePlus == 43
ByteMinus == 45
\* The first byte that is not ASCII: from_utf8 rejects a buffer holding the
\* model's one non-ASCII byte, 0xFF, which no UTF-8 text contains.
AsciiEnd == 128
BadByte == AsciiEnd + 127
CRLF == <<CR, LF>>

\* The text of "OK" and of the command names matched by Command::try_from.
OK == <<79, 75>>
GET == <<71, 69, 84>>
SET == <<83, 69, 84>>
ECHO == <<69, 67, 72, 79>>
COMMAND == <<67, 79, 77, 77, 65, 78, 68>>

(***************************** helpers *************************************)
Drop(s, n) == SubSeq(s, n + 1, Len(s))

Take(s, n) == SubSeq(s, 1, n)

IsPrefix(p, s) == Len(p) <= Len(s) /\ Take(s, Len(p)) = p

RECURSIVE Flatten(_)
Flatten(ss) == IF ss = <<>> THEN <<>> ELSE Head(ss) \o Flatten(Tail(ss))

\* std::str::from_utf8, on the model's bytes: ASCII is valid, 0xFF is not.
from_utf8_ok(bytes) == \A i \in 1..Len(bytes) : bytes[i] < AsciiEnd

IsDigit(b) == b >= ByteZero /\ b <= ByteNine

\* The lexicographic order of byte strings (Ord for String).
RECURSIVE BytesLess(_, _)
BytesLess(a, b) ==
    IF b = <<>> THEN FALSE
    ELSE IF a = <<>> THEN TRUE
    ELSE IF Head(a) # Head(b) THEN Head(a) < Head(b)
    ELSE BytesLess(Tail(a), Tail(b))

\* char::to_uppercase on ASCII, byte-wise (str::to_uppercase).
UpperByte(b) == IF b >= 97 /\ b <= 122 THEN b - 32 ELSE b

\* A text left in the case it has.
to_uppercase_id(s) == s

to_uppercase(s) == [i \in 1..Len(s) |-> UpperByte(s[i])]

\* format!("{}", n) of a non-negative integer.
RECURSIVE FmtNat(_)
FmtNat(n) == IF n < 10 THEN <<ByteZero + n>>
             ELSE FmtNat(n \div 10) \o <<ByteZero + (n % 10)>>

\* format!("{}", n) of an i64.
FmtInt(n) == IF n < 0 THEN <<ByteMinus>> \o FmtNat(0 - n) ELSE FmtNat(n)

\* The value of a string of decimal digits.
RECURSIVE DigitsValue(_)
DigitsValue(ds) ==
    IF ds = <<>> THEN 0
    ELSE 10 * DigitsValue(Take(ds, Len(ds) - 1)) + (ds[Len(ds)] - ByteZero)

AllDigits(ds) == ds # <<>> /\ \A i \in 1..Len(ds) : IsDigit(ds[i])

\* The digits of a number without its leading zeros.
RECURSIVE StripZeros(_)
StripZeros(ds) ==
    IF Len(ds) > 1 /\ Head(ds) = ByteZero THEN StripZeros(Tail(ds)) ELSE ds

\* a <= b, for decimal numbers without leading zeros.
DecLeq(a, b) == Len(a) < Len(b) \/ (Len(a) = Len(b) /\ ~BytesLess(b, a))

\* ds + k in decimal, for a small k.
RECURSIVE DecAdd(_, _)
DecAdd(ds, k) ==
    IF k = 0 THEN ds
    ELSE IF ds = <<>> THEN FmtNat(k)
    ELSE LET s == (ds[Len(ds)] - ByteZero) + k
         IN DecAdd(Take(ds, Len(ds) - 1), s \div 10) \o <<ByteZero + (s % 10)>>

\* i64::MAX = 9223372036854775807, the magnitude of i64::MIN and
\* usize::MAX = 18446744073709551615 (a 64-bit target), in decimal.
I64_MAX == <<57, 50, 50, 51, 51, 55, 50, 48, 51, 54, 56, 53, 52, 55, 55, 53, 56, 48, 55>>

I64_MIN == <<57, 50, 50, 51, 51, 55, 50, 48, 51, 54, 56, 53, 52, 55, 55, 53, 56, 48, 56>>

USIZE_MAX == <<49, 56, 52, 52, 54, 55, 52, 52, 48, 55, 51, 55, 48, 57, 53, 53, 49, 54, 49, 53>>

\* The largest magnitude the model computes with.  It is more than the
\* bytes and the elements a buffer of the model holds.
MaxExact == 999999999

\* A parsed number is [ok, n, big, dec]: dec is its magnitude in decimal and
\* n its value; for a magnitude beyond MaxExact big is TRUE and n is
\* MaxExact with the sign of the number.
NotParsed == [ok |-> FALSE, n |-> 0, big |-> FALSE, dec |-> <<>>]

\* The number of sign neg and digits ds, when it is within limit.
Parsed(neg, ds, limit) ==
    LET m == StripZeros(ds)
        big == ~DecLeq(m, FmtNat(MaxExact))
        mag == IF big THEN MaxExact ELSE DigitsValue(m)
    IN IF AllDigits(ds) /\ DecLeq(m, limit)
       THEN [ok |-> TRUE, n |-> IF neg THEN 0 - mag ELSE mag, big |-> big,
             dec |-> m]
       ELSE NotParsed

\* str::parse::<i64>: an optional sign, then one or more digits, of a
\* number from i64::MIN to i64::MAX.
parse_i64(s) ==
    IF s # <<>> /\ Head(s) = ByteMinus THEN Parsed(TRUE, Tail(s), I64_MIN)
    ELSE IF s # <<>> /\ Head(s) = BytePlus THEN Parsed(FALSE, Tail(s), I64_MAX)
    ELSE Parsed(FALSE, s, I64_MAX)

\* str::parse::<usize>: an optional '+', then one or more digits, of a number
\* up to usize::MAX; a '-' is an invalid digit.
parse_usize(s) ==
    IF s # <<>> /\ Head(s) = BytePlus THEN Parsed(FALSE, Tail(s), USIZE_MAX)
    ELSE Parsed(FALSE, s, USIZE_MAX)

\* Whether n + k overflows a type whose largest value is max.
AddOverflows(p, k, max) == ~DecLeq(DecAdd(p.dec, k), max)

(***************************** value model *********************************)
\* Every Resp value is a record of the same shape; a variant uses the fields
\* its struct holds and leaves the others at their defaults.
\*   text: String payload      num: i64 payload / f64 decimal mantissa
\*   exp: f64 decimal exponent bool: Boolean payload / f64 sign
\*   is_null: the null state of a BulkString / Array
\*   cls: "finite", "inf" or "nan" for a Double      items: Vec / BTree content
Mk(tag, text, num, exp, bool, is_null, cls, items) ==
    [tag |-> tag, text |-> text, num |-> num, exp |-> exp, bool |-> bool,
     is_null |-> is_null, cls |-> cls, items |-> items]

SimpleString(s) == Mk("SimpleString", s, 0, 0, FALSE, FALSE, "", <<>>)

SimpleError(s) == Mk("SimpleError", s, 0, 0, FALSE, FALSE, "", <<>>)

Integer(n) == Mk("Integer", <<>>, n, 0, FALSE, FALSE, "", <<>>)

BulkString(s, is_null) == Mk("BulkString", s, 0, 0, FALSE, is_null, "", <<>>)

Array(items, is_null) == Mk("Array", <<>>, 0, 0, FALSE, is_null, "", items)

Null == Mk("Null", <<>>, 0, 0, FALSE, FALSE, "", <<>>)

Boolean(b) == Mk("Boolean", <<>>, 0, 0, b, FALSE, "", <<>>)

\* A finite f64 is (-1)^neg * mant * 10^exp with mant not divisible by 10
\* (mant = 0 has exp = 0): the decimal its shortest representation prints.
Double(neg, mant, exp) == Mk("Double", <<>>, mant, exp, neg, FALSE, "finite", <<>>)

DoubleInf(neg) == Mk("Double", <<>>, 0, 0, neg, FALSE, "inf", <<>>)

DoubleNaN == Mk("Double", <<>>, 0, 0, FALSE, FALSE, "nan", <<>>)

BulkError(s) == Mk("BulkError", s, 0, 0, FALSE, FALSE, "", <<>>)

\* A Map holds its entries [key, val] in key order (BTreeMap), a Set its keys
\* in key order (BTreeSet).
Map(entries) == Mk("Map", <<>>, 0, 0, FALSE, FALSE, "", entries)

Set(keys) == Mk("Set", <<>>, 0, 0, FALSE, FALSE, "", keys)

\* enum Key: the variants of Resp that TryFrom<Resp> for Key accepts.
KeyTags == {"SimpleString", "SimpleError", "Integer", "BulkString",
            "BulkError", "Null", "Boolean"}

\* A conversion that takes every value for a key.
Key_try_from_any(v) == [ok |-> TRUE, key |-> v]

\* TryFrom<Resp> for Key.
Key_try_from(v) == [ok |-> v.tag \in KeyTags, key |-> v]

\* #[derive(Ord)] on Key: the variants in declaration order.
KeyRank(k) ==
    CASE k.tag = "SimpleString" -> 0
      [] k.tag = "SimpleError" -> 1
      [] k.tag = "Integer" -> 2
      [] k.tag = "BulkString" -> 3
      [] k.tag = "BulkError" -> 4
      [] k.tag = "Null" -> 5
      [] OTHER -> 6

KeyLess(a, b) ==
    IF KeyRank(a) # KeyRank(b) THEN KeyRank(a) < KeyRank(b)
    ELSE CASE a.tag = "Integer" -> a.num < b.num
           [] a.tag = "Boolean" -> (~a.bool) /\ b.bool
           [] a.tag = "Null" -> FALSE
           [] a.tag = "BulkString" ->
                 \/ BytesLess(a.text, b.text)
                 \/ (a.text = b.text /\ (~a.is_null) /\ b.is_null)
           [] OTHER -> BytesLess(a.text, b.text)

\* An insert that keeps the value a key already has.
RECURSIVE MapInsert_keep(_, _, _)
MapInsert_keep(entries, k, v) ==
    IF entries = <<>> THEN <<[key |-> k, val |-> v]>>
    ELSE IF Head(entries).key = k THEN entries
    ELSE IF KeyLess(k, Head(entries).key)
         THEN <<[key |-> k, val |-> v]>> \o entries
    ELSE <<Head(entries)>> \o MapInsert_keep(Tail(entries), k, v)

\* BTreeMap::insert: the entry of an equal key is replaced, a new key is
\* placed in key order.
RECURSIVE MapInsert(_, _, _)
MapInsert(entries, k, v) ==
    IF entries = <<>> THEN <<[key |-> k, val |-> v]>>
    ELSE IF Head(entries).key = k
         THEN <<[key |-> k, val |-> v]>> \o Tail(entries)
    ELSE IF KeyLess(k, Head(entries).key)
         THEN <<[key |-> k, val |-> v]>> \o entries
    ELSE <<Head(entries)>> \o MapInsert(Tail(entries), k, v)

\* BTreeSet::insert: an equal key is kept once.
RECURSIVE SetInsert(_, _)
SetInsert(keys, k) ==
    IF keys = <<>> THEN <<k>>
    ELSE IF Head(keys) = k THEN keys
    ELSE IF KeyLess(k, Head(keys)) THEN <<k>> \o keys
    ELSE <<Head(keys)>> \o SetInsert(Tail(keys), k)

(***************************** encoder *************************************)
NumDigits(n) == Len(FmtNat(n))

Zeros(n) == [i \in 1..n |-> ByteZero]

\* A range that takes 1e8 in: the leading digit up to 1e8.
InFixedRange_closed(mant, exp) ==
    LET lead == NumDigits(mant) + exp - 1
    IN /\ mant # 0
       /\ (lead <= 7 \/ (lead = 8 /\ mant = 1))
       /\ (lead > -5 \/ (lead = -5 /\ mant # 1))

\* Whether 1e-5 < |v| < 1e8 for the finite decimal mant * 10^exp: the
\* decimal exponent of its leading digit lies in -5 .. 7, 1e-5 itself left out.
InFixedRange(mant, exp) ==
    LET lead == NumDigits(mant) + exp - 1
    IN /\ mant # 0
       /\ lead <= 7
       /\ (lead > -5 \/ (lead = -5 /\ mant # 1))

\* format!("{}", f64) of a finite value in that range: positional notation.
FmtFixed(neg, mant, exp) ==
    LET ds == FmtNat(mant)
        body == IF exp >= 0 THEN ds \o Zeros(exp)
                ELSE IF Len(ds) > 0 - exp
                     THEN Take(ds, Len(ds) + exp) \o <<ByteDot>>
                          \o Drop(ds, Len(ds) + exp)
                ELSE <<ByteZero, ByteDot>> \o Zeros((0 - exp) - Len(ds)) \o ds
    IN (IF neg THEN <<ByteMinus>> ELSE <<>>) \o body

\* format!("{:+e}", f64) of a finite value: the sign of the value, the
\* mantissa d.ddd, 'e', the exponent with a '-' when negative.
FmtExp(neg, mant, exp) ==
    LET ds == FmtNat(mant)
        e == IF mant = 0 THEN 0 ELSE Len(ds) + exp - 1
    IN <<IF neg THEN ByteMinus ELSE BytePlus>>
       \o <<Head(ds)>>
       \o (IF Len(ds) > 1 THEN <<ByteDot>> \o Tail(ds) ELSE <<>>)
       \o <<ByteLowerE>> \o FmtInt(e)

SerializeDouble(d) ==
    <<TagDouble>>
    \o (CASE d.cls = "nan" -> <<78, 97, 78>>
          [] d.cls = "inf" -> <<IF d.bool THEN ByteMinus ELSE BytePlus>>
                              \o <<105, 110, 102>>
          [] OTHER -> IF InFixedRange(d.num, d.exp)
                      THEN FmtFixed(d.bool, d.num, d.exp)
                      ELSE FmtExp(d.bool, d.num, d.exp))
    \o CRLF

SerializeSimpleString(s) == <<TagSimpleString>> \o s.text \o CRLF

SerializeSimpleError(s) == <<TagSimpleError>> \o s.text \o CRLF

SerializeInteger(s) == <<TagInteger>> \o FmtInt(s.num) \o CRLF

\* The length and the text of self.value; is_null is not read.
SerializeBulkString(s) ==
    <<TagBulkString>> \o FmtNat(Len(s.text)) \o CRLF \o s.text \o CRLF

SerializeNull == <<TagNull>> \o CRLF

SerializeBoolean(s) ==
    IF s.bool THEN <<TagBoolean, ByteT>> \o CRLF
    ELSE <<TagBoolean, ByteF>> \o CRLF

SerializeBulkError(s) ==
    <<TagBulkError>> \o FmtNat(Len(s.text)) \o CRLF \o s.text \o CRLF

\* Serialize for Key: every Key variant.
SerializeKey(k) ==
    CASE k.tag = "SimpleString" -> SerializeSimpleString(k)
      [] k.tag = "SimpleError" -> SerializeSimpleError(k)
      [] k.tag = "Integer" -> SerializeInteger(k)
      [] k.tag = "BulkString" -> SerializeBulkString(k)
      [] k.tag = "Null" -> SerializeNull
      [] k.tag = "Boolean" -> SerializeBoolean(k)
      [] OTHER -> SerializeBulkError(k)

\* Serialize for Set (reached only when a Set is serialized directly).
SerializeSet(s) ==
    <<TagSet>> \o FmtNat(Len(s.items)) \o CRLF
    \o Flatten([i \in 1..Len(s.items) |-> SerializeKey(s.items[i])])

\* Serialize for Resp, with Serialize for Array and for Map: the Set arm is
\* commented out in the source and falls to `_ => Vec::new()`.
RECURSIVE Serialize(_)
Serialize(v) ==
    CASE v.tag = "SimpleString" -> SerializeSimpleString(v)
      [] v.tag = "SimpleError" -> SerializeSimpleError(v)
      [] v.tag = "Integer" -> SerializeInteger(v)
      [] v.tag = "BulkString" -> SerializeBulkString(v)
      [] v.tag = "Array" ->
            <<TagArray>> \o FmtNat(Len(v.items)) \o CRLF
            \o Flatten([i \in 1..Len(v.items) |-> Serialize(v.items[i])])
      [] v.tag = "Null" -> SerializeNull
      [] v.tag = "Boolean" -> SerializeBoolean(v)
      [] v.tag = "Double" -> SerializeDouble(v)
      [] v.tag = "BulkError" -> SerializeBulkError(v)
      [] v.tag = "Map" ->
            <<TagMap>> \o FmtNat(Len(v.items)) \o CRLF
            \o Flatten([i \in 1..Len(v.items) |->
                          SerializeKey(v.items[i].key)
                          \o Serialize(v.items[i].val)])
      [] OTHER -> <<>>

(***************************** decoder *************************************)
\* The build profile: with overflow-checks (the default of a debug build)
\* integer overflow panics, without (the default of a release build) it
\* wraps.
VARIABLE overflow_checks

\* A decoder function takes the buffer and gives [err, val, buf]: the error
\* ("" for Ok), the value, and the buffer as the call leaves it.  The buffer
\* is a &mut BytesMut: what advance and split_to removed before an early
\* return stays removed.
\* "Panic" for the error is a panic of the call.
Ok(val, buf) == [err |-> "", val |-> val, buf |-> buf]

Err(e, buf) == [err |-> e, val |-> Null, buf |-> buf]

\* The index of the first byte of s that is in set, 0 if there is none.
RECURSIVE PositionIn(_, _, _)
PositionIn(s, set, from) ==
    IF from > Len(s) THEN 0
    ELSE IF s[from] \in set THEN from
    ELSE PositionIn(s, set, from + 1)

\* A scan that waits for more bytes when the '\r' is not followed by '\n'.
find_crlf_wait(buf) ==
    LET i == PositionIn(buf, {CR}, 1)
    IN IF i = 0 \/ i + 1 > Len(buf) \/ buf[i + 1] # LF
       THEN [err |-> "NotComplete", bytes |-> <<>>, buf |-> buf]
       ELSE [err |-> "", bytes |-> Take(buf, i - 1), buf |-> Drop(buf, i + 1)]

\* find_crlf gives [err, bytes, buf]: the bytes before the first '\r'.
find_crlf(buf) ==
    LET i == PositionIn(buf, {CR}, 1)
    IN IF i = 0 THEN [err |-> "NotComplete", bytes |-> <<>>, buf |-> buf]
       ELSE IF i + 1 > Len(buf)
            THEN [err |-> "NotComplete", bytes |-> <<>>, buf |-> buf]
       ELSE IF buf[i + 1] # LF
            THEN [err |-> "WrongFormat", bytes |-> <<>>, buf |-> buf]
       ELSE [err |-> "", bytes |-> Take(buf, i - 1), buf |-> Drop(buf, i + 1)]

deserialize_simple_string(buf) ==
    LET r == find_crlf(buf)
    IN IF r.err # "" THEN Err(r.err, r.buf)
       ELSE IF from_utf8_ok(r.bytes) THEN Ok(SimpleString(r.bytes), r.buf)
       ELSE Err("Utf8Error", r.buf)

deserialize_simple_error(buf) ==
    LET r == find_crlf(buf)
    IN IF r.err # "" THEN Err(r.err, r.buf)
       ELSE IF from_utf8_ok(r.bytes) THEN Ok(SimpleError(r.bytes), r.buf)
       ELSE Err("Utf8Error", r.buf)

deserialize_integer(buf) ==
    LET r == find_crlf(buf)
    IN IF r.err # "" THEN Err(r.err, r.buf)
       ELSE IF ~from_utf8_ok(r.bytes) THEN Err("Utf8Error", r.buf)
       ELSE IF parse_i64(r.bytes).ok
            THEN Ok(Integer(parse_i64(r.bytes).n), r.buf)
       ELSE Err("WrongFormat", r.buf)

\* `len + 2` overflows i64 for the two largest lengths.  Where overflow is
\* checked the addition panics; where it wraps, the sum is negative, the
\* length of the buffer is not below it, and split_to(len) panics past the
\* end of the buffer.  "Panic" is that outcome.
deserialize_bulk_string(buf) ==
    LET r == find_crlf(buf)
        len == parse_i64(r.bytes).n
    IN IF r.err # "" THEN Err(r.err, r.buf)
       ELSE IF ~from_utf8_ok(r.bytes) THEN Err("Utf8Error", r.buf)
       ELSE IF ~parse_i64(r.bytes).ok THEN Err("WrongFormat", r.buf)
       ELSE IF len = -1 THEN Ok(BulkString(<<>>, TRUE), r.buf)
       ELSE IF len < 0 THEN Err("WrongFormat", r.buf)
       ELSE IF AddOverflows(parse_i64(r.bytes), 2, I64_MAX)
            THEN Err("Panic", r.buf)
       ELSE IF Len(r.buf) < len + 2 THEN Err("NotComplete", r.buf)
       ELSE IF Drop(r.buf, len)[1] # CR \/ Drop(r.buf, len)[2] # LF
            THEN Err("WrongFormat", Drop(r.buf, len))
       ELSE IF from_utf8_ok(Take(r.buf, len))
            THEN Ok(BulkString(Take(r.buf, len), FALSE), Drop(r.buf, len + 2))
       ELSE Err("Utf8Error", Drop(r.buf, len + 2))

deserialize_null(buf) ==
    IF Len(buf) < 2 THEN Err("NotComplete", buf)
    ELSE IF buf[1] # CR \/ buf[2] # LF THEN Err("WrongFormat", buf)
    ELSE Ok(Null, Drop(buf, 2))

deserialize_boolean(buf) ==
    LET r == find_crlf(buf)
    IN IF r.err # "" THEN Err(r.err, r.buf)
       ELSE IF Len(r.bytes) # 1 THEN Err("WrongFormat", r.buf)
       ELSE IF r.bytes[1] = ByteT THEN Ok(Boolean(TRUE), r.buf)
       ELSE IF r.bytes[1] = ByteF THEN Ok(Boolean(FALSE), r.buf)
       ELSE Err("WrongFormat", r.buf)

\* mant * 10^exp with the trailing zeros of mant moved into exp.
RECURSIVE Normalize(_, _)
Normalize(mant, exp) ==
    IF mant = 0 THEN [mant |-> 0, exp |-> 0]
    ELSE IF mant % 10 = 0 THEN Normalize(mant \div 10, exp + 1)
    ELSE [mant |-> mant, exp |-> exp]

\* str::parse::<f64>, giving [ok, val]: an optional sign, then "inf",
\* "infinity" or "nan" in any case, or digits with an optional '.' and an
\* optional exponent ('e' or 'E', an optional sign, digits); at least one
\* digit before the exponent.
parse_f64(s) ==
    LET signed == s # <<>> /\ Head(s) \in {BytePlus, ByteMinus}
        neg == signed /\ Head(s) = ByteMinus
        u == IF signed THEN Tail(s) ELSE s
        low == [i \in 1..Len(u) |->
                  IF u[i] >= 65 /\ u[i] <= 90 THEN u[i] + 32 ELSE u[i]]
        pe == PositionIn(u, {ByteLowerE, ByteUpperE}, 1)
        mt == IF pe = 0 THEN u ELSE Take(u, pe - 1)
        ex == IF pe = 0 THEN <<>> ELSE Drop(u, pe)
        pd == PositionIn(mt, {ByteDot}, 1)
        ip == IF pd = 0 THEN mt ELSE Take(mt, pd - 1)
        fp == IF pd = 0 THEN <<>> ELSE Drop(mt, pd)
        e == IF pe = 0 THEN 0 ELSE parse_i64(ex).n
        nm == Normalize(DigitsValue(ip \o fp), e - Len(fp))
    IN IF low \in {<<105, 110, 102>>, <<105, 110, 102, 105, 110, 105, 116, 121>>}
       THEN [ok |-> TRUE, val |-> DoubleInf(neg)]
       ELSE IF low = <<110, 97, 110>> THEN [ok |-> TRUE, val |-> DoubleNaN]
       ELSE IF /\ \A i \in 1..Len(ip) : IsDigit(ip[i])
               /\ \A i \in 1..Len(fp) : IsDigit(fp[i])
               /\ Len(ip) + Len(fp) >= 1
               /\ (pe = 0 \/ parse_i64(ex).ok)
            THEN [ok |-> TRUE, val |-> Double(neg, nm.mant, nm.exp)]
       ELSE [ok |-> FALSE, val |-> Null]

deserialize_double(buf) ==
    LET r == find_crlf(buf)
    IN IF r.err # "" THEN Err(r.err, r.buf)
       ELSE IF ~from_utf8_ok(r.bytes) THEN Err("Utf8Error", r.buf)
       ELSE IF parse_f64(r.bytes).ok THEN Ok(parse_f64(r.bytes).val, r.buf)
       ELSE Err("WrongFormat", r.buf)

\* `len + 2` overflows usize for the two largest lengths.  Where overflow is
\* checked the addition panics; where it wraps, the sum is 0 or 1, and when
\* the length of the buffer is not below it split_to(len) panics past the
\* end of the buffer.
deserialize_bulk_error(buf) ==
    LET r == find_crlf(buf)
        len == parse_usize(r.bytes).n
        wrapped == IF AddOverflows(parse_usize(r.bytes), 1, USIZE_MAX) THEN 1
                   ELSE 0
    IN IF r.err # "" THEN Err(r.err, r.buf)
       ELSE IF ~from_utf8_ok(r.bytes) THEN Err("Utf8Error", r.buf)
       ELSE IF ~parse_usize(r.bytes).ok THEN Err("WrongFormat", r.buf)
       ELSE IF AddOverflows(parse_usize(r.bytes), 2, USIZE_MAX)
            THEN IF overflow_checks THEN Err("Panic", r.buf)
                 ELSE IF Len(r.buf) < wrapped THEN Err("NotComplete", r.buf)
                 ELSE Err("Panic", r.buf)
       ELSE IF Len(r.buf) < len + 2 THEN Err("NotComplete", r.buf)
       ELSE IF Drop(r.buf, len)[1] # CR \/ Drop(r.buf, len)[2] # LF
            THEN Err("WrongFormat", Drop(r.buf, len))
       ELSE IF from_utf8_ok(Take(r.buf, len))
            THEN Ok(BulkError(Take(r.buf, len)), Drop(r.buf, len + 2))
       ELSE Err("Utf8Error", Drop(r.buf, len + 2))

RECURSIVE _try_from(_)
RECURSIVE array_loop(_, _, _)
RECURSIVE map_loop(_, _, _)
RECURSIVE set_loop(_, _, _)

\* A loop that reads the elements and keeps none.
array_loop_skip(buf, n, acc) ==
    IF n = 0 THEN Ok(Array(acc, FALSE), buf)
    ELSE LET r == _try_from(buf)
         IN IF r.err # "" THEN Err(r.err, r.buf)
            ELSE array_loop(r.buf, n - 1, acc)

\* The body of deserialize_array's `for _ in 0..len`.
array_loop(buf, n, acc) ==
    IF n = 0 THEN Ok(Array(acc, FALSE), buf)
    ELSE LET r == _try_from(buf)
         IN IF r.err # "" THEN Err(r.err, r.buf)
            ELSE array_loop(r.buf, n - 1, Append(acc, r.val))

\* An Array decoder that takes every negative length for the null Array.
deserialize_array_anyneg(buf) ==
    LET r == find_crlf(buf)
        len == parse_i64(r.bytes).n
    IN IF r.err # "" THEN Err(r.err, r.buf)
       ELSE IF ~from_utf8_ok(r.bytes) THEN Err("Utf8Error", r.buf)
       ELSE IF ~parse_i64(r.bytes).ok THEN Err("WrongFormat", r.buf)
       ELSE IF len < 0 THEN Ok(Array(<<>>, TRUE), r.buf)
       ELSE array_loop(r.buf, len, <<>>)

deserialize_array(buf) ==
    LET r == find_crlf(buf)
        len == parse_i64(r.bytes).n
    IN IF r.err # "" THEN Err(r.err, r.buf)
       ELSE IF ~from_utf8_ok(r.bytes) THEN Err("Utf8Error", r.buf)
       ELSE IF ~parse_i64(r.bytes).ok THEN Err("WrongFormat", r.buf)
       ELSE IF len = -1 THEN Ok(Array(<<>>, TRUE), r.buf)
       ELSE IF len < 0 THEN Err("WrongFormat", r.buf)
       ELSE array_loop(r.buf, len, <<>>)

\* The body of deserialize_map's `for _ in 0..len`.
map_loop(buf, n, acc) ==
    IF n = 0 THEN Ok(Map(acc), buf)
    ELSE LET k == _try_from(buf)
             v == _try_from(k.buf)
         IN IF k.err # "" THEN Err(k.err, k.buf)
            ELSE IF ~Key_try_from(k.val).ok THEN Err("WrongFormat", k.buf)
            ELSE IF v.err # "" THEN Err(v.err, v.buf)
            ELSE map_loop(v.buf, n - 1,
                          MapInsert(acc, Key_try_from(k.val).key, v.val))

deserialize_map(buf) ==
    LET r == find_crlf(buf)
    IN IF r.err # "" THEN Err(r.err, r.buf)
       ELSE IF ~from_utf8_ok(r.bytes) THEN Err("Utf8Error", r.buf)
       ELSE IF ~parse_usize(r.bytes).ok THEN Err("WrongFormat", r.buf)
       ELSE map_loop(r.buf, parse_usize(r.bytes).n, <<>>)

\* The body of deserialize_set's `for _ in 0..len`.
set_loop(buf, n, acc) ==
    IF n = 0 THEN Ok(Set(acc), buf)
    ELSE LET r == _try_from(buf)
         IN IF r.err # "" THEN Err(r.err, r.buf)
            ELSE IF ~Key_try_from(r.val).ok THEN Err("WrongFormat", r.buf)
            ELSE set_loop(r.buf, n - 1, SetInsert(acc, Key_try_from(r.val).key))

deserialize_set(buf) ==
    LET r == find_crlf(buf)
    IN IF r.err # "" THEN Err(r.err, r.buf)
       ELSE IF ~from_utf8_ok(r.bytes) THEN Err("Utf8Error", r.buf)
       ELSE IF ~parse_usize(r.bytes).ok THEN Err("WrongFormat", r.buf)
       ELSE set_loop(r.buf, parse_usize(r.bytes).n, <<>>)

\* buf.advance(1) comes before the body is read, in every arm.
_try_from(buf) ==
    IF Len(buf) < 3 THEN Err("NotComplete", buf)
    ELSE CASE buf[1] = TagSimpleString -> deserialize_simple_string(Tail(buf))
           [] buf[1] = TagSimpleError -> deserialize_simple_error(Tail(buf))
           [] buf[1] = TagMap -> deserialize_map(Tail(buf))
           [] buf[1] = TagInteger -> deserialize_integer(Tail(buf))
           [] buf[1] = TagBulkString -> deserialize_bulk_string(Tail(buf))
           [] buf[1] = TagNull -> deserialize_null(Tail(buf))
           [] buf[1] = TagBoolean -> deserialize_boolean(Tail(buf))
           [] buf[1] = TagDouble -> deserialize_double(Tail(buf))
           [] buf[1] = TagBulkError -> deserialize_bulk_error(Tail(buf))
           [] buf[1] = TagArray -> deserialize_array(Tail(buf))
           [] buf[1] = TagSet -> deserialize_set(Tail(buf))
           [] OTHER -> Err("UnknownRespType", buf)

\* A parse that takes the first value and lets the rest of the buffer be.
Resp_try_from_lax(buf) == _try_from(buf)

\* TryFrom<&mut BytesMut> for Resp: bytes left after the value are an error.
Resp_try_from(buf) ==
    LET Checked(r) == IF r.err # "" THEN r
                      ELSE IF r.buf # <<>> THEN Err("WrongFormat", r.buf)
                      ELSE r
    IN Checked(_try_from(buf))

(***************************** command model *******************************)
\* enum Command: Get{key}, Set{key, value}, Echo{msg}, Cmd.
CmdGet(key) == [op |-> "Get", key |-> key, value |-> Null, msg |-> Null]

CmdSet(key, value) == [op |-> "Set", key |-> key, value |-> value, msg |-> Null]

CmdEcho(msg) == [op |-> "Echo", key |-> Null, value |-> Null, msg |-> msg]

CmdCmd == [op |-> "Cmd", key |-> Null, value |-> Null, msg |-> Null]

CmdOk(cmd) ==
    [err |-> "", expected |-> 0, actual |-> 0, name |-> <<>>, cmd |-> cmd]

CmdErr(e, expected, actual, name) ==
    [err |-> e, expected |-> expected, actual |-> actual, name |-> name,
     cmd |-> CmdCmd]

\* An error that carries the number of arguments expected and given.
WrongNumberOfArguments(expected, actual) ==
    CmdErr("WrongNumberOfArguments", expected, actual, <<>>)

\* An error without the name of the command.
UnsupportedCommand_anon(name) == CmdErr("UnsupportedCommand", 0, 0, <<>>)

\* The last arm of the match: cmd is the text the match was made on.
UnsupportedCommand(name) == CmdErr("UnsupportedCommand", 0, 0, name)

\* A match that lets arguments follow the ones a command takes.
Command_match_atleast(name, args) ==
    CASE name = GET ->
            IF Len(args) < 1 THEN WrongNumberOfArguments(1, Len(args))
            ELSE IF ~Key_try_from(args[1]).ok
                 THEN CmdErr("UnsupportedKey", 0, 0, <<>>)
            ELSE CmdOk(CmdGet(Key_try_from(args[1]).key))
      [] name = SET ->
            IF Len(args) < 2 THEN WrongNumberOfArguments(2, Len(args))
            ELSE IF ~Key_try_from(args[1]).ok
                 THEN CmdErr("UnsupportedKey", 0, 0, <<>>)
            ELSE CmdOk(CmdSet(Key_try_from(args[1]).key, args[2]))
      [] name = COMMAND -> CmdOk(CmdCmd)
      [] name = ECHO ->
            IF Len(args) < 1 THEN WrongNumberOfArguments(1, Len(args))
            ELSE CmdOk(CmdEcho(args[1]))
      [] OTHER -> UnsupportedCommand(name)

\* match s.value.to_uppercase().as_str(): name is the upper-case text, and
\* iter.len() after the first next() is the number of elements that follow
\* the command name.
Command_match(name, args) ==
    CASE name = GET ->
            IF Len(args) # 1 THEN WrongNumberOfArguments(1, Len(args))
            ELSE IF ~Key_try_from(args[1]).ok
                 THEN CmdErr("UnsupportedKey", 0, 0, <<>>)
            ELSE CmdOk(CmdGet(Key_try_from(args[1]).key))
      [] name = SET ->
            IF Len(args) # 2 THEN WrongNumberOfArguments(2, Len(args))
            ELSE IF ~Key_try_from(args[1]).ok
                 THEN CmdErr("UnsupportedKey", 0, 0, <<>>)
            ELSE CmdOk(CmdSet(Key_try_from(args[1]).key, args[2]))
      [] name = COMMAND -> CmdOk(CmdCmd)
      [] name = ECHO ->
            IF Len(args) # 1 THEN WrongNumberOfArguments(1, Len(args))
            ELSE CmdOk(CmdEcho(args[1]))
      [] OTHER -> UnsupportedCommand(name)

\* A conversion that takes the text of any first element for the name.
Command_try_from_anyname(value) ==
    IF value.tag # "Array" THEN CmdErr("WrongFormat", 0, 0, <<>>)
    ELSE IF value.items = <<>> THEN CmdErr("WrongFormat", 0, 0, <<>>)
    ELSE Command_match(to_uppercase(value.items[1].text), Tail(value.items))

\* TryFrom<Resp> for Command.
Command_try_from(value) ==
    IF value.tag # "Array" THEN CmdErr("WrongFormat", 0, 0, <<>>)
    ELSE IF value.items = <<>> THEN CmdErr("WrongFormat", 0, 0, <<>>)
    ELSE IF value.items[1].tag # "BulkString"
         THEN CmdErr("WrongFormat", 0, 0, <<>>)
    ELSE Command_match(to_uppercase(value.items[1].text), Tail(value.items))

(***************************** storage engine ******************************)
\* Storage is an Arc<DashMap<Key, Resp>>: a function from the keys it holds
\* to their values.  DashMap::get and DashMap::insert each run under the
\* lock of the key's shard: one call is one atomic step.
Storage_new == <<>>

\* A lookup that reads a value while it is being written: the first byte of
\* the text only.
Storage_get_torn(st, key) ==
    IF key \in DOMAIN st
    THEN [some |-> TRUE, val |-> BulkString(Take(st[key].text, 1), FALSE)]
    ELSE [some |-> FALSE, val |-> Null]

\* Storage::get: a clone of the stored value, None on a miss.
Storage_get(st, key) ==
    IF key \in DOMAIN st THEN [some |-> TRUE, val |-> st[key]]
    ELSE [some |-> FALSE, val |-> Null]

\* An insert that keeps the entry a key already has.
Storage_set_keep(st, key, value) ==
    [k \in (DOMAIN st) \cup {key} |-> IF k \in DOMAIN st THEN st[k] ELSE value]

\* An insert that loses the entries of the other keys.
Storage_set_lone(st, key, value) == [k \in {key} |-> value]

\* Storage::set: DashMap::insert replaces the entry of the key.
Storage_set(st, key, value) ==
    [k \in (DOMAIN st) \cup {key} |-> IF k = key THEN value ELSE st[k]]

\* An executor that fails a Get of a key it does not hold.
Storage_execute_strict(st, cmd) ==
    CASE cmd.op = "Get" ->
            [ok |-> cmd.key \in DOMAIN st, res |-> Storage_get(st, cmd.key), st |-> st]
      [] cmd.op = "Set" ->
            [ok |-> TRUE, res |-> [some |-> FALSE, val |-> Null],
             st |-> Storage_set(st, cmd.key, cmd.value)]
      [] OTHER -> [ok |-> TRUE, res |-> [some |-> FALSE, val |-> Null], st |-> st]

\* CommandExecutor for Storage: [ok, res, st], res the Option<Resp>.
Storage_execute(st, cmd) ==
    CASE cmd.op = "Get" ->
            [ok |-> TRUE, res |-> Storage_get(st, cmd.key), st |-> st]
      [] cmd.op = "Set" ->
            [ok |-> TRUE, res |-> [some |-> FALSE, val |-> Null],
             st |-> Storage_set(st, cmd.key, cmd.value)]
      [] OTHER -> [ok |-> TRUE, res |-> [some |-> FALSE, val |-> Null], st |-> st]

\* Get::execute, Set::execute, Echo::execute and the Cmd arm of
\* Command::execute: [ok, resp, st, calls], calls the number of calls made
\* to the executor.
Get_execute(cmd, st) ==
    LET r == Storage_execute(st, cmd)
    IN [ok |-> r.ok, resp |-> IF r.res.some THEN r.res.val ELSE Null,
        st |-> r.st, calls |-> 1]

Set_execute(cmd, st) ==
    LET r == Storage_execute(st, cmd)
    IN [ok |-> r.ok, resp |-> SimpleString(OK), st |-> r.st, calls |-> 1]

\* An Echo that asks the executor and replies with what a Set replies.
Echo_execute_ok(cmd, st) ==
    [ok |-> TRUE, resp |-> SimpleString(OK), st |-> st, calls |-> 1]

Echo_execute(cmd, st) ==
    [ok |-> TRUE, resp |-> cmd.msg, st |-> st, calls |-> 0]

Command_execute(cmd, st) ==
    CASE cmd.op = "Get" -> Get_execute(cmd, st)
      [] cmd.op = "Set" -> Set_execute(cmd, st)
      [] cmd.op = "Echo" -> Echo_execute(cmd, st)
      [] OTHER -> [ok |-> TRUE, resp |-> SimpleString(OK), st |-> st, calls |-> 0]

(***************************** codec ***************************************)
\* A decode that waits for more bytes on every error of the RESP decoder.
Codec_decode_wait(buf) ==
    LET Converted(resp, cmd) ==
            IF cmd.err = ""
            THEN [kind |-> "Some", cmd |-> cmd.cmd, err |-> "", buf |-> resp.buf]
            ELSE [kind |-> "Err", cmd |-> CmdCmd, err |-> cmd.err, buf |-> resp.buf]
        Matched(resp) ==
            IF resp.err = "" THEN Converted(resp, Command_try_from(resp.val))
            ELSE [kind |-> "None", cmd |-> CmdCmd, err |-> "", buf |-> resp.buf]
    IN Matched(Resp_try_from(buf))

\* Decoder for Codec: [kind, cmd, err, buf] with kind "Some" for
\* Ok(Some(cmd)), "None" for Ok(None), "Err" for Err(err), and "Panic" for
\* a panic of the decoder, which unwinds through decode.
Codec_decode(buf) ==
    LET Converted(resp, cmd) ==
            IF cmd.err = ""
            THEN [kind |-> "Some", cmd |-> cmd.cmd, err |-> "", buf |-> resp.buf]
            ELSE [kind |-> "Err", cmd |-> CmdCmd, err |-> cmd.err, buf |-> resp.buf]
        Matched(resp) ==
            IF resp.err = "" THEN Converted(resp, Command_try_from(resp.val))
            ELSE IF resp.err = "NotComplete"
                 THEN [kind |-> "None", cmd |-> CmdCmd, err |-> "", buf |-> resp.buf]
            ELSE IF resp.err = "Panic"
                 THEN [kind |-> "Panic", cmd |-> CmdCmd, err |-> "", buf |-> resp.buf]
            ELSE [kind |-> "Err", cmd |-> CmdCmd, err |-> resp.err, buf |-> resp.buf]
    IN Matched(Resp_try_from(buf))

\* Encoder<Resp> for Codec: buf.extend(item.serialize()).
Codec_encode(item, buf) == buf \o Serialize(item)

(***************************** bounds **************************************)
\* The number of connections the accept loop has spawned a task for.
NumConns == 2
\* The number of requests the clients send, all together.
MaxReqs == 3
\* The size of a short first read of a request (a read is short or whole).
FirstRead == 4

Conns == 1..NumConns

(***************************** requests ************************************)
\* What the clients put on the wire, in RESP.
WireBulk(s) == SerializeBulkString(BulkString(s, FALSE))

WireArray(parts) ==
    <<TagArray>> \o FmtNat(Len(parts)) \o CRLF \o Flatten(parts)

KeyA == <<97>>
KeyB == <<98>>
ValX == <<120, 120>>
ValY == <<121, 121>>
PING == <<80, 73, 78, 71>>

ReqGet(k) == WireArray(<<WireBulk(GET), WireBulk(k)>>)

ReqSet(k, v) == WireArray(<<WireBulk(SET), WireBulk(k), WireBulk(v)>>)

ReqEcho(wire) == WireArray(<<WireBulk(ECHO), wire>>)

ReqCommand == WireArray(<<WireBulk(COMMAND)>>)

\* ECHO of a Set value, ~1\r\n+a\r\n.
ReqEchoSet == ReqEcho(SerializeSet(Set(<<SimpleString(KeyA)>>)))

Requests ==
    {ReqGet(KeyA), ReqGet(KeyB), ReqSet(KeyA, ValX), ReqSet(KeyA, ValY),
     ReqSet(KeyB, ValX), ReqEchoSet, ReqCommand,
     WireArray(<<WireBulk(PING)>>)}

(***************************** state ***************************************)
VARIABLES
    storage,  \* the shared Storage
    pc,       \* pc[c]: where the task of connection c is in process()
    rbuf,     \* rbuf[c]: the read buffer of the connection's Framed
    net,      \* net[c]: bytes the client has written and the task not yet read
    cmd,      \* cmd[c]: the Command frame.next() gave
    resp,     \* resp[c]: the reply cmd.execute gave
    wire,     \* wire[c]: [n, last], the number of sends and the bytes of the last
    nreq,     \* the number of requests the clients have sent
    pending,  \* pending[c]: the client awaits the reply to its request
    setlog,   \* history: the SETs the storage has executed, in order
    obs,      \* history: obs[c], the command whose reply connection c is sending
    fbuf,     \* the buffer a lone Codec decodes from
    fsent,    \* the bytes appended to fbuf since its last complete frame
    fpre,     \* the buffer as the last decode call received it
    fres,     \* what the last decode call returned
    ftok,     \* the number of raw tokens fed
    rt_pc,    \* the step of an encode/decode round trip
    rt_v,     \* the value of the round trip
    rt_bytes, \* its wire form
    rt_out,   \* what decoding gave
    rt_back,  \* the decoded value, encoded again
    cv_pc,    \* the step of a conversion of a value to a Command
    cv_in,    \* the value converted
    cv_st,    \* the storage the Command executes against
    cv_out,   \* what the conversion gave
    cv_res,   \* what executing the Command gave
    dc_pc,    \* the step of a decoding of bytes from the wire
    dc_in,    \* the parts the bytes are made of
    dc_bytes, \* the bytes
    dc_out,   \* what decoding gave
    dc_back   \* the decoded value, encoded again

serverVars == <<storage, pc, rbuf, net, cmd, resp, wire, nreq, pending,
                setlog, obs>>

feedVars == <<fbuf, fsent, fpre, fres, ftok>>

rtVars == <<rt_pc, rt_v, rt_bytes, rt_out, rt_back>>

cmdVars == <<cv_pc, cv_in, cv_st, cv_out, cv_res>>

decVars == <<dc_pc, dc_in, dc_bytes, dc_out, dc_back, overflow_checks>>

vars == <<serverVars, feedVars, rtVars, cmdVars, decVars>>

NoObs == [op |-> "", key |-> Null, reply |-> Null, at |-> 0, calls |-> 0]

NoRes == [kind |-> "", cmd |-> CmdCmd, err |-> "", buf |-> <<>>]

ServerInit ==
    /\ storage = Storage_new
    /\ pc = [c \in Conns |-> "read"]
    /\ rbuf = [c \in Conns |-> <<>>]
    /\ net = [c \in Conns |-> <<>>]
    /\ cmd = [c \in Conns |-> CmdCmd]
    /\ resp = [c \in Conns |-> Null]
    /\ wire = [c \in Conns |-> [n |-> 0, last |-> <<>>]]
    /\ nreq = 0
    /\ pending = [c \in Conns |-> FALSE]
    /\ setlog = <<>>
    /\ obs = [c \in Conns |-> NoObs]

FeedInit ==
    /\ fbuf = <<>>
    /\ fsent = <<>>
    /\ fpre = <<>>
    /\ fres = NoRes
    /\ ftok = 0

RtIdle ==
    /\ rt_pc = "idle"
    /\ rt_v = Null
    /\ rt_bytes = <<>>
    /\ rt_out = Err("", <<>>)
    /\ rt_back = <<>>

NoExec == [ok |-> TRUE, resp |-> Null, st |-> Storage_new, calls |-> 0]

CmdIdle ==
    /\ cv_pc = "idle"
    /\ cv_in = Null
    /\ cv_st = Storage_new
    /\ cv_out = CmdOk(CmdCmd)
    /\ cv_res = NoExec

NoInput == [head |-> <<>>, elems |-> <<>>, tail |-> <<>>]

\* The build profile is read where a declared length of ten digits or more
\* is decoded; where no such length is on the wire it has no effect.
DecIdle ==
    /\ dc_pc = "idle"
    /\ dc_in = NoInput
    /\ dc_bytes = <<>>
    /\ dc_out = Err("", <<>>)
    /\ dc_back = <<>>
    /\ overflow_checks = FALSE

(***************************** connection driver ***************************)
\* The client of connection c writes one request and waits for its reply.
ClientSend(c, req) ==
    /\ pc[c] = "read"
    /\ ~pending[c]
    /\ nreq < MaxReqs
    /\ net' = [net EXCEPT ![c] = net[c] \o req]
    /\ nreq' = nreq + 1
    /\ pending' = [pending EXCEPT ![c] = TRUE]
    /\ UNCHANGED <<storage, pc, rbuf, cmd, resp, wire, setlog, obs>>

\* The sizes of the read frame.next() may make of the bytes in flight.
ReadSizes(b) == {Len(b)} \cup {n \in {FirstRead} : n < Len(b)}

\* The task of connection c awaits frame.next() and n bytes of the socket are
\* there to read.
CanRead(c, n) ==
    /\ pc[c] = "read"
    /\ net[c] # <<>>
    /\ n \in 1..Len(net[c])

\* frame.next(): n bytes are read into the buffer and Codec::decode runs on it.
\* Some(Ok(cmd)) goes on to execute, Ok(None) reads again, Some(Err(e)) is
\* logged; a panic ends the task, as the end of the stream does.
Read(c, n) ==
    /\ CanRead(c, n)
    /\ \E d \in {Codec_decode(rbuf[c] \o Take(net[c], n))} :
          /\ rbuf' = [rbuf EXCEPT ![c] = d.buf]
          /\ cmd' = [cmd EXCEPT ![c] = d.cmd]
          /\ pc' = [pc EXCEPT ![c] = CASE d.kind = "Some" -> "exec"
                                       [] d.kind = "None" -> "read"
                                       [] OTHER -> "err"]
    /\ net' = [net EXCEPT ![c] = Drop(net[c], n)]
    /\ UNCHANGED <<storage, resp, wire, nreq, pending, setlog, obs>>

\* cmd.execute(storage): Ok(resp) goes on to frame.send, Err(e) is logged.
Exec(c) ==
    /\ pc[c] = "exec"
    /\ \E r \in {Command_execute(cmd[c], storage)} :
          /\ storage' = r.st
          /\ resp' = [resp EXCEPT ![c] = r.resp]
          /\ pc' = [pc EXCEPT ![c] = IF r.ok THEN "send" ELSE "read"]
          /\ setlog' = IF cmd[c].op = "Set"
                       THEN Append(setlog, [conn |-> c, key |-> cmd[c].key,
                                            value |-> cmd[c].value])
                       ELSE setlog
          /\ obs' = [obs EXCEPT ![c] =
                       [op |-> cmd[c].op,
                        key |-> IF cmd[c].op \in {"Get", "Set"}
                                THEN cmd[c].key ELSE Null,
                        reply |-> r.resp, at |-> Len(setlog),
                        calls |-> r.calls]]
    /\ UNCHANGED <<rbuf, net, cmd, wire, nreq, pending>>

\* A send that goes back to reading with nothing written.
Send_unwritten(c) ==
    /\ pc[c] = "send"
    /\ pc' = [pc EXCEPT ![c] = "read"]
    /\ cmd' = [cmd EXCEPT ![c] = CmdCmd]
    /\ resp' = [resp EXCEPT ![c] = Null]
    /\ pending' = [pending EXCEPT ![c] = FALSE]
    /\ obs' = [obs EXCEPT ![c] = NoObs]
    /\ UNCHANGED <<storage, rbuf, net, wire, nreq, setlog>>

\* frame.send(resp): Codec::encode into the write buffer, flushed to the socket.
Send(c) ==
    /\ pc[c] = "send"
    /\ wire' = [wire EXCEPT ![c] = [n |-> wire[c].n + 1,
                                    last |-> Codec_encode(resp[c], <<>>)]]
    /\ pc' = [pc EXCEPT ![c] = "read"]
    /\ cmd' = [cmd EXCEPT ![c] = CmdCmd]
    /\ resp' = [resp EXCEPT ![c] = Null]
    /\ pending' = [pending EXCEPT ![c] = FALSE]
    /\ obs' = [obs EXCEPT ![c] = NoObs]
    /\ UNCHANGED <<storage, rbuf, net, nreq, setlog>>

\* A fault that ends every task of the server.
Close_all(c) ==
    /\ pc[c] = "err"
    /\ pc' = [d \in Conns |-> "closed"]
    /\ UNCHANGED <<storage, rbuf, net, cmd, resp, wire, nreq, pending,
                   setlog, obs>>

\* After Some(Err(e)) the stream is over: frame.next() gives None and the
\* loop breaks.
Close(c) ==
    /\ pc[c] = "err"
    /\ pc' = [pc EXCEPT ![c] = "closed"]
    /\ UNCHANGED <<storage, rbuf, net, cmd, resp, wire, nreq, pending,
                   setlog, obs>>

Init == ServerInit /\ FeedInit /\ RtIdle /\ CmdIdle /\ DecIdle

Next ==
    \/ \E c \in Conns, req \in Requests :
          ClientSend(c, req) /\ UNCHANGED <<feedVars, rtVars, cmdVars, decVars>>
    \/ \E c \in Conns : \E n \in ReadSizes(net[c]) :
          Read(c, n) /\ UNCHANGED <<feedVars, rtVars, cmdVars, decVars>>
    \/ \E c \in Conns : Exec(c) /\ UNCHANGED <<feedVars, rtVars, cmdVars, decVars>>
    \/ \E c \in Conns : Send(c) /\ UNCHANGED <<feedVars, rtVars, cmdVars, decVars>>
    \/ \E c \in Conns : Close(c) /\ UNCHANGED <<feedVars, rtVars, cmdVars, decVars>>

Spec == Init /\ [][Next]_vars

(***************************** clients that do not wait ********************)
\* The server with clients that write a request whether the reply to their
\* last one has come or not: the bytes of a request may be in the socket
\* while the task is still at the request before it.
PipeRequests == {ReqGet(KeyA), ReqSet(KeyA, ValX), ReqSet(KeyA, ValY)}

ClientWrite(c, req) ==
    /\ pc[c] \notin {"err", "closed"}
    /\ nreq < MaxReqs
    /\ net' = [net EXCEPT ![c] = net[c] \o req]
    /\ nreq' = nreq + 1
    /\ pending' = [pending EXCEPT ![c] = TRUE]
    /\ UNCHANGED <<storage, pc, rbuf, cmd, resp, wire, setlog, obs>>

\* A read may end where a request ends, as it may end anywhere.
FrameSizes(c) ==
    {n \in 1..Len(net[c]) : rbuf[c] \o Take(net[c], n) \in PipeRequests}

PipeNext ==
    \/ \E c \in Conns, req \in PipeRequests :
          ClientWrite(c, req) /\ UNCHANGED <<feedVars, rtVars, cmdVars, decVars>>
    \/ \E c \in Conns : \E n \in ReadSizes(net[c]) \cup FrameSizes(c) :
          Read(c, n) /\ UNCHANGED <<feedVars, rtVars, cmdVars, decVars>>
    \/ \E c \in Conns : Exec(c) /\ UNCHANGED <<feedVars, rtVars, cmdVars, decVars>>
    \/ \E c \in Conns : Send(c) /\ UNCHANGED <<feedVars, rtVars, cmdVars, decVars>>
    \/ \E c \in Conns : Close(c) /\ UNCHANGED <<feedVars, rtVars, cmdVars, decVars>>

PipeSpec == Init /\ [][PipeNext]_vars

(***************************** a lone codec *******************************)
\* One Framed over one Codec, fed what a socket may deliver: after every
\* read, Codec::decode runs on the buffer.

\* The number of raw tokens fed to the codec.
MaxTok == 3

\* Commands on the wire and the Command each one is.
ValidMsgs ==
    {[wire |-> ReqGet(KeyA), cmd |-> CmdGet(BulkString(KeyA, FALSE))],
     [wire |-> ReqSet(KeyA, ValX),
      cmd |-> CmdSet(BulkString(KeyA, FALSE), BulkString(ValX, FALSE))],
     [wire |-> ReqEcho(SerializeInteger(Integer(7))), cmd |-> CmdEcho(Integer(7))],
     [wire |-> ReqCommand, cmd |-> CmdCmd]}

\* Pieces of RESP, well-formed and not.
Tokens ==
    {<<TagSimpleString, 97>>, <<TagSimpleString, 97>> \o CRLF,
     <<TagInteger, 49>> \o CRLF, <<TagNull>> \o CRLF,
     <<TagBoolean, ByteT>> \o CRLF, <<TagDouble, 49>> \o CRLF,
     <<TagBulkString, 49>> \o CRLF, <<TagBulkString, 45, 49>> \o CRLF,
     <<TagBulkString, 45, 50>> \o CRLF, <<TagBulkError, 49>> \o CRLF,
     <<TagArray, 49>> \o CRLF, <<TagMap, 49>> \o CRLF, <<TagSet, 49>> \o CRLF,
     <<97>>, <<97>> \o CRLF, <<CR>>, <<LF>>, <<88>>, <<BadByte>> \o CRLF,
     WireBulk(PING)}

\* The sequences of n tokens.
RawChunks(n) == [1..n -> Tokens]

\* The bytes of the frame being fed: a complete frame starts a new one.
FeedBase == IF fres.kind = "Some" THEN <<>> ELSE fsent

\* A read appends chunk to the buffer and Codec::decode runs.  After an Err
\* the stream is over.
Feed(chunk) ==
    /\ fres.kind \notin {"Err", "Panic"}
    /\ \E d \in {Codec_decode(fbuf \o chunk)} :
          /\ fpre' = fbuf \o chunk
          /\ fbuf' = d.buf
          /\ fres' = d
    /\ fsent' = FeedBase \o chunk

\* The next k bytes of a command arrive, at a codec fed commands only.
FeedMsg(m, k) ==
    /\ ftok = 0
    /\ IsPrefix(FeedBase, m.wire)
    /\ Len(FeedBase) + k <= Len(m.wire)
    /\ Feed(SubSeq(m.wire, Len(FeedBase) + 1, Len(FeedBase) + k))
    /\ UNCHANGED ftok

\* Some tokens arrive together, at a codec fed tokens only.
FeedRaw(ts) ==
    /\ ftok = 0 => fsent = <<>>
    /\ ftok + Len(ts) <= MaxTok
    /\ ftok' = ftok + Len(ts)
    /\ Feed(Flatten(ts))

FeedNext ==
    \/ \E m \in ValidMsgs : \E k \in 1..Len(m.wire) :
          FeedMsg(m, k) /\ UNCHANGED <<serverVars, rtVars, cmdVars, decVars>>
    \/ \E n \in 1..(MaxTok - ftok) : \E ts \in RawChunks(n) :
          FeedRaw(ts) /\ UNCHANGED <<serverVars, rtVars, cmdVars, decVars>>

FeedSpec == Init /\ [][FeedNext]_vars

(***************************** round trips ********************************)
Texts == {<<>>, <<97>>, OK, CRLF}

SimpleTexts == {<<>>, <<97>>, OK}

\* Values without components.
Scalars ==
    {SimpleString(t) : t \in SimpleTexts}
    \cup {SimpleError(t) : t \in SimpleTexts}
    \cup {Integer(n) : n \in {0, 7, -12, 305}}
    \cup {BulkString(t, FALSE) : t \in Texts}
    \cup {BulkString(<<>>, TRUE), Null, Boolean(TRUE), Boolean(FALSE)}
    \cup {Double(FALSE, 399, -2), Double(FALSE, 1234, 5), Double(TRUE, 74, -8),
          Double(FALSE, 1, 0)}
    \cup {BulkError(t) : t \in Texts}

KeyScalars == {v \in Scalars : Key_try_from(v).ok}

\* Arrays, Maps and Sets of scalars, null and empty ones among them.
Composites ==
    {Array(<<>>, FALSE), Array(<<>>, TRUE), Map(<<>>), Set(<<>>)}
    \cup {Array(<<x>>, FALSE) : x \in Scalars}
    \cup {Array(<<x, Integer(7)>>, FALSE) : x \in Scalars}
    \cup {Map(MapInsert(<<>>, k, Boolean(TRUE))) : k \in KeyScalars}
    \cup {Map(MapInsert(MapInsert(<<>>, k, Null), Integer(7), Array(<<>>, FALSE))) :
            k \in KeyScalars}
    \cup {Set(SetInsert(SetInsert(<<>>, k), Integer(7))) : k \in KeyScalars}

\* Values with a composite inside.
Nested ==
    {Array(<<x>>, FALSE) : x \in Composites}
    \cup {Map(MapInsert(<<>>, Integer(7), x)) : x \in Composites}

Values == Scalars \cup Composites \cup Nested

\* Wire forms of the null and the empty BulkString and Array.
NullAndEmptyWire ==
    {<<TagBulkString, 45, 49>> \o CRLF, <<TagBulkString, 48>> \o CRLF \o CRLF,
     <<TagArray, 45, 49>> \o CRLF, <<TagArray, 48>> \o CRLF}

RECURSIVE HasSet(_)
\* v is a Set or holds one.
HasSet(v) ==
    \/ v.tag = "Set"
    \/ v.tag = "Array" /\ \E i \in DOMAIN v.items : HasSet(v.items[i])
    \/ v.tag = "Map" /\ \E i \in DOMAIN v.items : HasSet(v.items[i].val)

\* One complete value each, of every type.
CompleteWires ==
    NullAndEmptyWire
    \cup {Serialize(v) : v \in {x \in Values : ~HasSet(x)}}
    \cup {SerializeSet(v) : v \in {x \in Composites : x.tag = "Set"}}

\* What may follow a value in the buffer: a byte, a line end, a second value.
Trailers == {<<97>>, CRLF, <<TagSimpleString, 97>> \o CRLF}

Wires ==
    CompleteWires
    \cup {w \o t : w \in CompleteWires, t \in Trailers}
    \cup {Flatten(ts) : ts \in [1..2 -> Tokens]}

RtInit ==
    /\ rt_out = Err("", <<>>)
    /\ rt_back = <<>>
    /\ \/ rt_pc = "value" /\ rt_v \in Values /\ rt_bytes = <<>>
       \/ rt_pc = "wire" /\ rt_v = Null /\ rt_bytes \in Wires

\* v.serialize()
RtEncode ==
    /\ rt_pc = "value"
    /\ rt_bytes' = Serialize(rt_v)
    /\ rt_pc' = "encoded"
    /\ UNCHANGED <<rt_v, rt_out, rt_back>>

\* Resp::try_from on the bytes of the value.
RtDecode ==
    /\ rt_pc = "encoded"
    /\ rt_out' = Resp_try_from(rt_bytes)
    /\ rt_pc' = "decoded"
    /\ UNCHANGED <<rt_v, rt_bytes, rt_back>>

\* Resp::try_from on bytes from the wire.
RtParse ==
    /\ rt_pc = "wire"
    /\ rt_out' = Resp_try_from(rt_bytes)
    /\ rt_pc' = "parsed"
    /\ UNCHANGED <<rt_v, rt_bytes, rt_back>>

\* The parsed value, serialized.
RtReencode ==
    /\ rt_pc = "parsed"
    /\ rt_out.err = ""
    /\ rt_back' = Serialize(rt_out.val)
    /\ rt_pc' = "reencoded"
    /\ UNCHANGED <<rt_v, rt_bytes, rt_out>>

RtNext ==
    \/ RtEncode /\ UNCHANGED <<serverVars, feedVars, cmdVars, decVars>>
    \/ RtDecode /\ UNCHANGED <<serverVars, feedVars, cmdVars, decVars>>
    \/ RtParse /\ UNCHANGED <<serverVars, feedVars, cmdVars, decVars>>
    \/ RtReencode /\ UNCHANGED <<serverVars, feedVars, cmdVars, decVars>>

RtSpecInit == ServerInit /\ FeedInit /\ RtInit /\ CmdIdle /\ DecIdle

RtSpec == RtSpecInit /\ [][RtNext]_vars

(***************************** the storage engine, observed ****************)
RECURSIVE LastSetOn(_, _)
\* The value of the most recent SET on key in log, Null when there is none.
LastSetOn(log, key) ==
    IF log = <<>> THEN Null
    ELSE IF log[Len(log)].key = key THEN log[Len(log)].value
    ELSE LastSetOn(SubSeq(log, 1, Len(log) - 1), key)

\* The values the SETs of log wrote to key.
WrittenTo(log, key) == {log[i].value : i \in {j \in DOMAIN log : log[j].key = key}}

\* What a lookup of key in the storage gives a GET.
Lookup(key) == LET F(g) == IF g.some THEN g.val ELSE Null IN F(Storage_get(storage, key))

\* C3: GET k replies with the value of the most recent SET on k, or Null if
\* k was never SET; every SET replies SimpleString "OK" and replaces the
\* entry of its key, whatever it held.
C3_GetSeesLastSet ==
    /\ \A c \in Conns :
          pc[c] = "send" =>
             /\ obs[c].op = "Get" =>
                   obs[c].reply = LastSetOn(Take(setlog, obs[c].at), obs[c].key)
             /\ obs[c].op = "Set" =>
                   /\ obs[c].reply = SimpleString(OK)
                   /\ obs[c].at < Len(setlog)
    /\ \A i \in DOMAIN setlog : Lookup(setlog[i].key) = LastSetOn(setlog, setlog[i].key)
    /\ \A k \in DOMAIN storage : WrittenTo(setlog, k) # {}

\* A GET replies with the second of two different values set on its key.
C3_Witness ==
    \E c \in Conns :
       /\ pc[c] = "send"
       /\ obs[c].op = "Get"
       /\ obs[c].at = 2
       /\ setlog[1].key = obs[c].key
       /\ setlog[2].key = obs[c].key
       /\ setlog[1].value # setlog[2].value
       /\ obs[c].reply = setlog[2].value

\* C4: under any interleaving of the connections, a GET on k replies with
\* Null only if no SET on k completed before it, and otherwise with one of
\* the values a SET on k wrote: never with a value no SET wrote.
C4_NoTornValue ==
    \A c \in Conns :
       (pc[c] = "send" /\ obs[c].op = "Get") =>
          IF obs[c].reply = Null
          THEN WrittenTo(Take(setlog, obs[c].at), obs[c].key) = {}
          ELSE obs[c].reply \in WrittenTo(Take(setlog, obs[c].at), obs[c].key)

\* A GET has read a value of its key while another connection is about to
\* SET the same key.
C4_Witness ==
    \E c \in Conns, d \in Conns :
       /\ c # d
       /\ pc[c] = "send"
       /\ obs[c].op = "Get"
       /\ obs[c].reply # Null
       /\ pc[d] = "exec"
       /\ cmd[d].op = "Set"
       /\ cmd[d].key = obs[c].key
       /\ cmd[d].value # obs[c].reply

\* Every connection has SET one key, no two of them the same key, and
\* nothing else was SET.
DistinctSets ==
    /\ Len(setlog) = NumConns
    /\ \A i \in DOMAIN setlog, j \in DOMAIN setlog :
          i # j => (setlog[i].conn # setlog[j].conn /\ setlog[i].key # setlog[j].key)

\* C5: once N connections have each SET a distinct key, the storage holds
\* for each of the N keys the value written for it, and a GET of such a key
\* from any connection replies with exactly that value.
C5_DistinctKeys ==
    DistinctSets =>
       \A i \in DOMAIN setlog :
          /\ Lookup(setlog[i].key) = setlog[i].value
          /\ \A c \in Conns :
                (/\ pc[c] = "send"
                 /\ obs[c].op = "Get"
                 /\ obs[c].at = Len(setlog)
                 /\ obs[c].key = setlog[i].key) => obs[c].reply = setlog[i].value

\* After the SETs of distinct keys, a GET replies with the value another
\* connection wrote first.
C5_Witness ==
    /\ DistinctSets
    /\ \E c \in Conns :
          /\ pc[c] = "send"
          /\ obs[c].op = "Get"
          /\ obs[c].at = Len(setlog)
          /\ obs[c].key = setlog[1].key
          /\ setlog[1].conn # c
          /\ obs[c].reply = setlog[1].value

\* The bytes hold exactly one complete top-level value.
OneValue(bytes) == LET F(r) == r.err = "" /\ r.buf = <<>> IN F(Resp_try_from(bytes))

\* C8: for every command decoded and executed, the server writes back
\* exactly one complete encoded value, never zero bytes.
C8_OneReplyPerCommand ==
    \A c \in Conns :
       wire[c].n > 0 => (wire[c].last # <<>> /\ OneValue(wire[c].last))

(***************************** the codec, observed **************************)
\* C1: a valid message fed in chunks, the decoder called after each: every
\* call on a strict prefix of the message returns Ok(None), and the call
\* with the full message returns its Command.
C1_IncrementalFeed ==
    \A m \in ValidMsgs :
       (ftok = 0 /\ fres.kind # "" /\ IsPrefix(fsent, m.wire)) =>
          IF fsent = m.wire
          THEN fres.kind = "Some" /\ fres.cmd = m.cmd
          ELSE fres.kind = "None"

\* C2: when the decoder reports NotComplete, the buffer after the call is
\* byte for byte the buffer before the call.
C2_IncompleteKeepsBuffer == fres.kind = "None" => fbuf = fpre

\* Buffers with a fault: an unknown tag, a bad length, bad UTF-8, a missing
\* terminator, trailing bytes, a command that is no command.
Malformed ==
    {<<88>> \o CRLF,
     <<TagBulkString, 45, 50>> \o CRLF,
     <<TagSimpleString, 97, BadByte>> \o CRLF,
     <<TagBulkString, 49>> \o CRLF \o <<97, 97>> \o CRLF,
     <<TagSimpleString, 97>> \o CRLF \o <<97>>,
     <<TagArray, 49>> \o CRLF \o WireBulk(PING),
     <<TagArray, 49>> \o CRLF \o <<TagInteger, 49>> \o CRLF}

\* What Codec::decode is to return for what the RESP decoder and the
\* conversion to a Command gave.
DecodeOutcome(r, c) ==
    IF r.err = "NotComplete" THEN fres.kind = "None"
    ELSE IF r.err # "" THEN fres.kind = "Err" /\ fres.err = r.err
    ELSE IF c.err # "" THEN fres.kind = "Err" /\ fres.err = c.err
    ELSE fres.kind = "Some" /\ fres.cmd = c.cmd

\* C10: Codec::decode returns Ok(None) exactly when the RESP decoder
\* reports NotComplete, Err for every other error of the decoder and for
\* every command-conversion error, and Ok(Some(command)) otherwise; a
\* malformed buffer is an Err.
C10_DecodeOutcome ==
    fres.kind # "" =>
       /\ LET F(r) == DecodeOutcome(r, IF r.err = "" THEN Command_try_from(r.val)
                                       ELSE CmdErr("", 0, 0, <<>>))
          IN F(Resp_try_from(fpre))
       /\ fpre \in Malformed => fres.kind = "Err"

\* Decode has met a malformed buffer.
C10_Witness == fpre \in Malformed /\ fres.kind = "Err"

(***************************** round trips, observed ***********************)
\* C6: for every value without a Set component, null and empty BulkString
\* and Array among them, decoding its encoding succeeds and gives the value.
C6_RoundTrip ==
    (rt_pc = "decoded" /\ ~HasSet(rt_v)) => (rt_out.err = "" /\ rt_out.val = rt_v)

\* C7: $-1 and *-1 decode to the null state, $0 and *0 to the empty state,
\* and encoding what was decoded gives the bytes back.
C7_NullAndEmpty ==
    (rt_pc = "reencoded" /\ rt_bytes \in NullAndEmptyWire) =>
       /\ rt_out.val.is_null = (rt_bytes[3] = 49)
       /\ rt_out.val.text = <<>>
       /\ rt_out.val.items = <<>>
       /\ rt_back = rt_bytes

\* C9: a parse succeeds only on a buffer that is one complete value and
\* nothing else: with bytes after the first complete value it returns
\* WrongFormat, and on success the buffer is empty.
C9_ExactlyOneValue ==
    rt_pc = "parsed" =>
       /\ rt_out.err = "" => rt_out.buf = <<>>
       /\ \A w \in CompleteWires :
             (IsPrefix(w, rt_bytes) /\ w # rt_bytes) => rt_out.err = "WrongFormat"

\* A parse of a Map followed by a second value.
C9_Witness ==
    /\ rt_pc = "parsed"
    /\ rt_out.err = "WrongFormat"
    /\ \E w \in CompleteWires :
          /\ w[1] = TagMap
          /\ rt_bytes = w \o <<TagSimpleString, 97>> \o CRLF

(***************************** commands ***********************************)
\* Command::try_from on a value and Command::execute on what it gives.

\* The number of arguments that follow a command name.
MaxArgs == 3

\* The spellings of an upper-case name: each letter in either case.
RECURSIVE Spellings(_)
Spellings(name) ==
    IF name = <<>> THEN {<<>>}
    ELSE {<<b>> \o t : b \in {name[1], name[1] + (ByteLowerE - ByteUpperE)},
                       t \in Spellings(Tail(name))}

\* The spellings of COMMAND: upper, lower, capital and alternating.
SpellingsOfCommand ==
    {s \in Spellings(COMMAND) :
        \/ \A i \in 2..Len(s) : s[i] = COMMAND[i]
        \/ \A i \in 2..Len(s) : s[i] # COMMAND[i]
        \/ \A i \in 1..Len(s) : (s[i] = COMMAND[i]) = (i % 2 = 1)}

\* Names of no command.
UnknownNames == {PING, [i \in 1..Len(PING) |-> PING[i] + (ByteLowerE - ByteUpperE)], <<>>}

CommandNames ==
    Spellings(GET) \cup Spellings(SET) \cup Spellings(ECHO) \cup SpellingsOfCommand
    \cup UnknownNames

\* One value of every type, as key, value or message.
ArgValues ==
    {SimpleString(KeyA), SimpleError(KeyA), Integer(7), BulkString(KeyA, FALSE),
     BulkError(KeyA), Null, Boolean(TRUE), Array(<<Integer(7)>>, FALSE),
     Double(FALSE, 399, -2), Map(MapInsert(<<>>, Integer(7), Null)),
     Set(SetInsert(<<>>, Integer(7)))}

\* The argument lists of n arguments: the first two of every type.
ArgLists(n) ==
    IF n = 0 THEN {<<>>}
    ELSE IF n = 1 THEN {<<a>> : a \in ArgValues}
    ELSE {<<a, b>> \o [i \in 1..(n - 2) |-> Integer(7)] : a \in ArgValues, b \in ArgValues}

\* Values that name no command: no Array, an Array without elements, an
\* Array whose first element is no BulkString.
NoCommands ==
    (ArgValues \ {Array(<<Integer(7)>>, FALSE)})
    \cup {Array(<<>>, FALSE), Array(<<>>, TRUE)}
    \cup {Array(<<a>> \o args, FALSE) :
            a \in ArgValues \ {BulkString(KeyA, FALSE)}, args \in ArgLists(0) \cup ArgLists(1)}

\* The Arrays of a name and n arguments.
Calls(n) ==
    {Array(<<BulkString(name, FALSE)>> \o args, FALSE) :
        name \in CommandNames, args \in ArgLists(n)}

\* Storage states: empty, holding a value under the key a, and holding
\* values under the key a and under a key of another type.
CmdStorages ==
    {Storage_new,
     Storage_set(Storage_new, BulkString(KeyA, FALSE), Integer(7)),
     Storage_set(Storage_set(Storage_new, BulkString(KeyA, FALSE), Integer(7)),
                 SimpleString(KeyA), BulkString(ValX, FALSE))}

CmdInit ==
    /\ cv_pc = "value"
    /\ \/ cv_in \in NoCommands
       \/ \E n \in 0..MaxArgs : cv_in \in Calls(n)
    /\ cv_st \in CmdStorages
    /\ cv_out = CmdOk(CmdCmd)
    /\ cv_res = NoExec

\* Command::try_from(value)
CmdConvert ==
    /\ cv_pc = "value"
    /\ cv_out' = Command_try_from(cv_in)
    /\ cv_pc' = "converted"
    /\ UNCHANGED <<cv_in, cv_st, cv_res>>

\* cmd.execute(storage)
CmdExecute ==
    /\ cv_pc = "converted"
    /\ cv_out.err = ""
    /\ cv_res' = Command_execute(cv_out.cmd, cv_st)
    /\ cv_pc' = "executed"
    /\ UNCHANGED <<cv_in, cv_st, cv_out>>

CmdNext ==
    \/ CmdConvert /\ UNCHANGED <<serverVars, feedVars, rtVars, decVars>>
    \/ CmdExecute /\ UNCHANGED <<serverVars, feedVars, rtVars, decVars>>

CmdSpecInit == ServerInit /\ FeedInit /\ RtIdle /\ CmdInit /\ DecIdle

CmdSpec == CmdSpecInit /\ [][CmdNext]_vars

(***************************** commands, observed *************************)
\* The value converted is an Array whose first element is a BulkString
\* that spells name, in whatever case.
IsCall(name) ==
    /\ cv_pc \in {"converted", "executed"}
    /\ cv_in.tag = "Array"
    /\ cv_in.items # <<>>
    /\ cv_in.items[1].tag = "BulkString"
    /\ cv_in.items[1].text \in Spellings(name)

\* The number of arguments that follow the name.
NumArgs == Len(cv_in.items) - 1

\* C11: GET and ECHO convert to a Command only with exactly one argument,
\* SET only with exactly two; every other count fails with
\* WrongNumberOfArguments(expected, actual).
C11_ExactArity ==
    \A name \in {GET, ECHO, SET} :
       IsCall(name) =>
          LET expected == IF name = SET THEN 2 ELSE 1
          IN IF NumArgs = expected
             THEN cv_out.err \in {"", "UnsupportedKey"}
             ELSE /\ cv_out.err = "WrongNumberOfArguments"
                  /\ cv_out.expected = expected
                  /\ cv_out.actual = NumArgs

\* `GET k extra` has failed with WrongNumberOfArguments(1, 2).
C11_Witness ==
    /\ IsCall(GET)
    /\ NumArgs = 2
    /\ cv_out.err = "WrongNumberOfArguments"
    /\ cv_out.expected = 1
    /\ cv_out.actual = 2

\* C12: COMMAND followed by one or more arguments fails with
\* WrongNumberOfArguments(0, actual) and converts to no Command.
C12_CommandTakesNoArguments ==
    (IsCall(COMMAND) /\ NumArgs >= 1) =>
       /\ cv_out.err = "WrongNumberOfArguments"
       /\ cv_out.expected = 0
       /\ cv_out.actual = NumArgs

\* C13: a GET or SET with the right number of arguments fails with
\* UnsupportedKey when its key is an Array, Double, Map or Set, and is
\* accepted with a key of the seven Key variants.
C13_KeyRestriction ==
    \A name \in {GET, SET} :
       (IsCall(name) /\ NumArgs = (IF name = SET THEN 2 ELSE 1)) =>
          /\ cv_in.items[2].tag \in {"Array", "Double", "Map", "Set"} =>
                cv_out.err = "UnsupportedKey"
          /\ cv_in.items[2].tag \in {"SimpleString", "SimpleError", "Integer",
                                     "BulkString", "BulkError", "Null", "Boolean"} =>
                /\ cv_out.err = ""
                /\ cv_out.cmd.op = (IF name = SET THEN "Set" ELSE "Get")
                /\ cv_out.cmd.key = cv_in.items[2]

\* A SET with a Map for key has failed with UnsupportedKey.
C13_Witness ==
    /\ IsCall(SET)
    /\ NumArgs = 2
    /\ cv_in.items[2].tag = "Map"
    /\ cv_out.err = "UnsupportedKey"

\* C14: a value that is no Array, or an Array (empty or null too) whose
\* first element is no BulkString, fails with WrongFormat.
C14_WrongFormat ==
    (/\ cv_pc \in {"converted", "executed"}
     /\ \/ cv_in.tag # "Array"
        \/ cv_in.items = <<>>
        \/ cv_in.items[1].tag # "BulkString") => cv_out.err = "WrongFormat"

\* An Array that starts with a SimpleString has failed with WrongFormat.
C14_Witness ==
    /\ cv_pc = "converted"
    /\ cv_in.tag = "Array"
    /\ cv_in.items # <<>>
    /\ cv_in.items[1].tag = "SimpleString"
    /\ cv_out.err = "WrongFormat"

\* C15: every spelling of GET, SET, ECHO and COMMAND converts to what the
\* upper-case spelling with the same arguments converts to.
C15_CaseInsensitive ==
    \A name \in {GET, SET, ECHO, COMMAND} :
       IsCall(name) =>
          cv_out = Command_try_from(Array(<<BulkString(name, FALSE)>>
                                          \o Tail(cv_in.items), FALSE))

\* A GET spelled without an upper-case letter has converted to Command::Get.
C15_Witness ==
    /\ IsCall(GET)
    /\ \A i \in 1..Len(GET) : cv_in.items[1].text[i] # GET[i]
    /\ cv_out.err = ""
    /\ cv_out.cmd.op = "Get"

\* The first element is a BulkString that names no command.
IsUnknownCall ==
    /\ cv_pc \in {"converted", "executed"}
    /\ cv_in.tag = "Array"
    /\ cv_in.items # <<>>
    /\ cv_in.items[1].tag = "BulkString"
    /\ cv_in.items[1].text \notin
          Spellings(GET) \cup Spellings(SET) \cup Spellings(ECHO) \cup Spellings(COMMAND)

\* C16, as stated: a name of no command fails with UnsupportedCommand
\* carrying the name, whatever the number of arguments.
C16_CarriesNameAsSent ==
    IsUnknownCall =>
       (cv_out.err = "UnsupportedCommand" /\ cv_out.name = cv_in.items[1].text)

\* C16: a name of no command fails with UnsupportedCommand carrying the
\* name in upper case, whatever the number of arguments.
C16_CarriesUpperCaseName ==
    /\ IsUnknownCall => cv_out.err = "UnsupportedCommand"
    /\ \A name \in {PING, <<>>} : IsCall(name) => cv_out.name = name

\* `ping` with two arguments has failed with UnsupportedCommand("PING").
C16_Witness ==
    /\ IsCall(PING)
    /\ cv_in.items[1].text # PING
    /\ NumArgs = 2
    /\ cv_out.err = "UnsupportedCommand"
    /\ cv_out.name = PING

\* C17: ECHO replies with its message unchanged, for every value used as
\* message, and makes no call to the executor.
C17_EchoUnchanged ==
    (cv_pc = "executed" /\ cv_out.cmd.op = "Echo") =>
       /\ cv_res.ok
       /\ cv_res.resp = cv_in.items[2]
       /\ cv_res.calls = 0
       /\ cv_res.st = cv_st

\* An ECHO of a Map has replied with the Map.
C17_Witness ==
    /\ cv_pc = "executed"
    /\ cv_out.cmd.op = "Echo"
    /\ cv_in.items[2].tag = "Map"
    /\ cv_res.resp = cv_in.items[2]

(***************************** the server, observed ***********************)
\* C18: Storage::execute returns Ok for every Command in every reachable
\* storage state, and so does Command::execute against the Storage.
C18_StorageIsTotal ==
    \A c \in Conns :
       pc[c] = "exec" =>
          /\ Storage_execute(storage, cmd[c]).ok
          /\ Command_execute(cmd[c], storage).ok

\* A GET of a key the storage does not hold is about to execute, the
\* storage holding another key.
C18_Witness ==
    \E c \in Conns :
       /\ pc[c] = "exec"
       /\ cmd[c].op = "Get"
       /\ storage # Storage_new
       /\ cmd[c].key \notin DOMAIN storage

\* A connection whose stream has ended in a decode or conversion fault.
Faulted(c) == pc[c] \in {"err", "closed"}

\* The steps of the task of connection d are there to take: Read has its
\* bytes and Codec::decode an outcome the loop goes on from, Exec and Send
\* are enabled.
Served(d) ==
    /\ (pc[d] = "read" /\ net[d] # <<>>) =>
          \E n \in ReadSizes(net[d]) :
             /\ CanRead(d, n)
             /\ Codec_decode(rbuf[d] \o Take(net[d], n)).kind
                   \in {"Some", "None", "Err", "Panic"}
    /\ pc[d] = "exec" => ENABLED Exec(d)
    /\ pc[d] = "send" => ENABLED Send(d)

\* C19: a decode or command-conversion fault executes no command, leaves
\* the storage unchanged, sends no reply, and leaves the other connections
\* as they are and served.
C19_FaultIsLocal ==
    /\ [](\A c \in Conns : Faulted(c) => \A d \in Conns \ {c} : Served(d))
    /\ [][\A c \in Conns :
             (pc'[c] \in {"err", "closed"}) =>
                /\ pc[c] \in {"read", "err", "closed"}
                /\ wire'[c] = wire[c]
                /\ pc'[c] # pc[c] =>
                      /\ storage' = storage
                      /\ setlog' = setlog
                      /\ wire' = wire
                      /\ \A d \in Conns \ {c} :
                            /\ pc'[d] = pc[d]
                            /\ rbuf'[d] = rbuf[d]
                            /\ net'[d] = net[d]]_vars

\* A connection has closed on a fault without a reply, and another is
\* about to send the reply to its command.
C19_Witness ==
    \E c \in Conns, d \in Conns :
       /\ c # d
       /\ pc[c] = "closed"
       /\ pending[c]
       /\ wire[c].n = 0
       /\ pc[d] = "send"

(***************************** the encoder, observed **********************)
\* C20: a Set reached through the encoder of Resp is `~`, the number of
\* elements, CRLF, then each element encoded, in key order: what the
\* encoder of Set gives.
C20_SetEncoding ==
    (rt_pc = "encoded" /\ rt_v.tag = "Set") =>
       /\ \A i \in DOMAIN rt_v.items, j \in DOMAIN rt_v.items :
             i < j => KeyLess(rt_v.items[i], rt_v.items[j])
       /\ SerializeSet(rt_v) =
             <<TagSet>> \o FmtNat(Len(rt_v.items)) \o CRLF
                \o Flatten([i \in DOMAIN rt_v.items |-> SerializeKey(rt_v.items[i])])
       /\ rt_bytes = SerializeSet(rt_v)

(***************************** a lone decoder ******************************)
\* Bytes are put together from a header, the wire forms of some values as
\* serialize() gives them and the bytes that follow; Resp::try_from runs on
\* them, and the value it gives is encoded again by the serializer of its type.

\* The number of elements (of pairs, for a Map) on the wire of a composite.
MaxElems == 3

\* The wire form of a value, a Set by Serialize for Set.
Encoded(v) == IF v.tag = "Set" THEN SerializeSet(v) ELSE Serialize(v)

DecWire(in) ==
    in.head \o Flatten([i \in DOMAIN in.elems |-> Encoded(in.elems[i])])
    \o in.tail

Header(tag, count) == <<tag>> \o count \o CRLF

DecKeys == {SimpleString(KeyA), Integer(7), Integer(-12), BulkString(KeyA, FALSE)}

DecVals == {Integer(1), BulkString(ValX, FALSE)}

\* A Map of n pairs, a key repeated or not, in every order.
MapInputs(n) ==
    {[head |-> Header(TagMap, FmtNat(n)),
      elems |-> [i \in 1..(2 * n) |-> IF i % 2 = 1 THEN ks[(i + 1) \div 2]
                                      ELSE vs[i \div 2]],
      tail |-> <<>>] : ks \in [1..n -> DecKeys], vs \in [1..n -> DecVals]}

\* A Set of n elements, an element repeated or not, in every order.
SetInputs(n) ==
    {[head |-> Header(TagSet, FmtNat(n)), elems |-> ks, tail |-> <<>>] :
        ks \in [1..n -> DecKeys]}

\* Finite doubles on both sides of 1e-5 and of 1e8, the two limits
\* themselves, zero, the infinities and NaN.
Doubles ==
    {Double(neg, mant, exp) :
        neg \in BOOLEAN, mant \in {1, 74, 399, 1234}, exp \in -10..8}
    \cup {Double(neg, 0, 0) : neg \in BOOLEAN}
    \cup {DoubleInf(neg) : neg \in BOOLEAN} \cup {DoubleNaN}

\* One value, serialized.
ValueInputs(vs) == {[head |-> <<>>, elems |-> <<v>>, tail |-> <<>>] : v \in vs}

\* What a header may come after: nothing, or the start of a composite that
\* the header's value is an element of.
Prefixes ==
    {<<>>, Header(TagArray, FmtNat(1)),
     Header(TagArray, FmtNat(2)) \o SerializeInteger(Integer(7)),
     Header(TagMap, FmtNat(1)) \o SerializeInteger(Integer(7))}

\* What may follow in the buffer: nothing, a byte, a line end, a lone '\r',
\* a value, a value and more.
Tails ==
    {<<>>, <<97>>, CRLF, <<CR>>, SerializeInteger(Integer(7)),
     SerializeSimpleString(SimpleString(KeyA)) \o <<TagBulkString, 53>>}

\* Headers that declare a length no value has: below -1 for a BulkString and
\* an Array, below 0 for a BulkError, a Map and a Set.
NegativeHeaders ==
    {Header(t, FmtInt(n)) : t \in {TagBulkString, TagArray}, n \in {-2, -3, -10}}
    \cup {Header(t, FmtInt(n)) : t \in {TagBulkError, TagMap, TagSet},
                                 n \in {-1, -2, -10}}

NegativeInputs ==
    {[head |-> p \o h, elems |-> <<>>, tail |-> t] :
        p \in Prefixes, h \in NegativeHeaders, t \in Tails}

\* Every field that CRLF ends, up to the place of its '\r': the text of a
\* SimpleString and of a SimpleError, an Integer, a Boolean, a Double, Null,
\* the length of a BulkString, a BulkError, an Array, a Map and a Set, and
\* the payload of a BulkString and of a BulkError.
OpenFields ==
    {<<TagSimpleString>>, <<TagSimpleString, 97>>, <<TagSimpleError, 97>>,
     <<TagInteger, 55>>,
     <<TagBoolean, ByteT>>, <<TagDouble, 49>>, <<TagNull>>,
     <<TagBulkString, 49>>, <<TagBulkError, 49>>, <<TagArray, 49>>,
     <<TagMap, 49>>, <<TagSet, 49>>,
     Header(TagBulkString, FmtNat(1)) \o <<97>>,
     Header(TagBulkString, FmtNat(0)),
     Header(TagBulkError, FmtNat(1)) \o <<97>>}

\* A '\r' at the end of the buffer, and a '\r' with a byte other than '\n'
\* behind it.
AfterCR ==
    {<<>>} \cup {<<x>> \o t : x \in {97, CR, TagSimpleString},
                             t \in {<<>>, <<LF>>, CRLF}}

LoneCRInputs ==
    {[head |-> p \o f, elems |-> <<>>, tail |-> <<CR>> \o t] :
        p \in Prefixes, f \in OpenFields, t \in AfterCR}

\* An Array that declares n elements and has m on the wire.
ArrayInputs(n, m) ==
    {[head |-> Header(TagArray, FmtNat(n)), elems |-> es, tail |-> <<>>] :
        es \in [1..m -> DecKeys]}

\* Complete values of the four types that Key has no variant for.
NotKeys ==
    {Array(<<>>, FALSE), Array(<<Integer(7)>>, FALSE), Double(FALSE, 399, -2),
     Double(TRUE, 1234, 5), DoubleNaN, Map(<<>>),
     Map(<<[key |-> Integer(7), val |-> Null]>>), Set(<<>>), Set(<<Integer(7)>>)}

\* A Map with one of them for a key and a Set with one of them for an
\* element, first or after a pair or an element that is in order; the value
\* of the key, more elements, or other bytes may follow or not.
BadKeysIn(tag, n, goods) ==
    {[head |-> p \o Header(tag, FmtNat(n)), elems |-> good \o <<bad>> \o more,
      tail |-> t] :
        p \in Prefixes, bad \in NotKeys, t \in Tails, good \in goods,
        more \in {<<>>, <<Integer(1)>>}}

BadKeyInputs ==
    BadKeysIn(TagMap, 1, {<<>>})
    \cup BadKeysIn(TagMap, 2, {<<>>, <<Integer(-12), Null>>})
    \cup BadKeysIn(TagSet, 1, {<<>>})
    \cup BadKeysIn(TagSet, 2, {<<>>, <<Integer(-12)>>})
    \cup
    {[head |-> p \o Header(t, FmtNat(1)) \o Header(TagArray, FmtInt(-1)),
      elems |-> <<>>, tail |-> tl] :
        p \in Prefixes, t \in {TagMap, TagSet}, tl \in Tails}

\* ds with d for its last digit.
WithLast(ds, d) == Take(ds, Len(ds) - 1) \o <<ByteZero + d>>

\* Lengths a BulkString header may declare, from 0 to i64::MAX: small ones,
\* the first beyond what the model computes with, and the three largest.
BulkStringLengths ==
    {FmtNat(0), FmtNat(1), FmtNat(5), FmtNat(MaxExact), DecAdd(FmtNat(MaxExact), 1),
     WithLast(I64_MAX, 5), WithLast(I64_MAX, 6), I64_MAX}

\* Lengths a BulkError header may declare, from 0 to usize::MAX.
BulkErrorLengths ==
    BulkStringLengths
    \cup {I64_MIN, WithLast(USIZE_MAX, 3), WithLast(USIZE_MAX, 4), USIZE_MAX}

\* What the buffer holds behind the header: nothing, less than the length
\* declared, as much, more.
Payloads ==
    {<<>>, <<97>>, CRLF, <<97>> \o CRLF, <<97, 97, 97, 97, 97>> \o CRLF,
     <<97>> \o CRLF \o SerializeInteger(Integer(7))}

LengthInputs ==
    {[head |-> p \o Header(TagBulkString, n), elems |-> <<>>, tail |-> t] :
        p \in Prefixes, n \in BulkStringLengths, t \in Payloads}
    \cup
    {[head |-> p \o Header(TagBulkError, n), elems |-> <<>>, tail |-> t] :
        p \in Prefixes, n \in BulkErrorLengths, t \in Payloads}

DecInit ==
    /\ dc_pc = "parts"
    /\ \/ \E n \in 0..MaxElems : dc_in \in MapInputs(n) \cup SetInputs(n)
       \/ dc_in \in ValueInputs(Doubles)
       \/ \E n \in 0..MaxElems, m \in 0..MaxElems : dc_in \in ArrayInputs(n, m)
       \/ dc_in \in NegativeInputs
       \/ dc_in \in LengthInputs
       \/ dc_in \in BadKeyInputs
       \/ dc_in \in LoneCRInputs
    /\ dc_bytes = <<>>
    /\ dc_out = Err("", <<>>)
    /\ dc_back = <<>>
    /\ overflow_checks \in BOOLEAN

\* serialize() on each value, between the header and what follows.
DecBuild ==
    /\ dc_pc = "parts"
    /\ dc_bytes' = DecWire(dc_in)
    /\ dc_pc' = "wire"
    /\ UNCHANGED <<dc_in, dc_out, dc_back, overflow_checks>>

\* Resp::try_from on the bytes.
DecParse ==
    /\ dc_pc = "wire"
    /\ dc_out' = Resp_try_from(dc_bytes)
    /\ dc_pc' = "parsed"
    /\ UNCHANGED <<dc_in, dc_bytes, dc_back, overflow_checks>>

\* serialize() on the value decoded.
DecReencode ==
    /\ dc_pc = "parsed"
    /\ dc_out.err = ""
    /\ dc_back' = Encoded(dc_out.val)
    /\ dc_pc' = "reencoded"
    /\ UNCHANGED <<dc_in, dc_bytes, dc_out, overflow_checks>>

DecNext ==
    \/ DecBuild /\ UNCHANGED <<serverVars, feedVars, rtVars, cmdVars>>
    \/ DecParse /\ UNCHANGED <<serverVars, feedVars, rtVars, cmdVars>>
    \/ DecReencode /\ UNCHANGED <<serverVars, feedVars, rtVars, cmdVars>>

DecSpecInit == ServerInit /\ FeedInit /\ RtIdle /\ CmdIdle /\ DecInit

DecSpec == DecSpecInit /\ [][DecNext]_vars

(***************************** the decoder, observed ***********************)
\* The input is a composite of the type of tag, its elements keys and
\* values in order: a Map of as many pairs and a Set of as many elements as
\* its header declares, an Array of as many or not.
IsInput(tag) ==
    /\ dc_in.tail = <<>>
    /\ \A i \in DOMAIN dc_in.elems : dc_in.elems[i] \in DecKeys \cup DecVals
    /\ \E n \in 0..MaxElems :
          /\ dc_in.head = Header(tag, FmtNat(n))
          /\ tag = TagSet => Len(dc_in.elems) = n
          /\ tag = TagMap =>
                /\ Len(dc_in.elems) = 2 * n
                /\ \A i \in DOMAIN dc_in.elems : i % 2 = 1 => dc_in.elems[i] \in DecKeys

\* The keys on the wire of a Map, and the value each is last given.
WireKeys == {dc_in.elems[i] : i \in {j \in DOMAIN dc_in.elems : j % 2 = 1}}

LastValueOf(k) ==
    LET last == CHOOSE i \in DOMAIN dc_in.elems :
                   /\ i % 2 = 1
                   /\ dc_in.elems[i] = k
                   /\ \A j \in DOMAIN dc_in.elems :
                         (j % 2 = 1 /\ dc_in.elems[j] = k) => j <= i
    IN dc_in.elems[last + 1]

\* The contents of the Map and of the Set on the wire: the order and the
\* number of times something is on the wire are not part of them.
MapContents == {[key |-> k, val |-> LastValueOf(k)] : k \in WireKeys}

SetContents == {dc_in.elems[i] : i \in DOMAIN dc_in.elems}

\* The keys of a set of keys in canonical order: variant tag first, then
\* the value held.
RECURSIVE KeysInOrder(_)
KeysInOrder(ks) ==
    IF ks = {} THEN <<>>
    ELSE LET least == CHOOSE k \in ks : \A o \in ks \ {k} : KeyLess(k, o)
         IN <<least>> \o KeysInOrder(ks \ {least})

\* The bytes of a Map and of a Set as their contents alone give them.
CanonicalMap(bindings) ==
    LET ks == KeysInOrder({b.key : b \in bindings})
        ValueOf(k) == (CHOOSE b \in bindings : b.key = k).val
    IN <<TagMap>> \o FmtNat(Cardinality(bindings)) \o CRLF
       \o Flatten([i \in DOMAIN ks |-> Encoded(ks[i]) \o Encoded(ValueOf(ks[i]))])

CanonicalSet(keys) ==
    LET ks == KeysInOrder(keys)
    IN <<TagSet>> \o FmtNat(Cardinality(keys)) \o CRLF
       \o Flatten([i \in DOMAIN ks |-> Encoded(ks[i])])

\* C21: a Map decoded from a wire form that repeats a key holds the key once,
\* bound to the value of its last occurrence; and the bytes a decoded Map or
\* Set is encoded to are those of its contents in canonical key order,
\* whatever the order on the wire was.
C21_LastWriteWinsCanonicalOrder ==
    /\ (dc_pc \in {"parsed", "reencoded"} /\ IsInput(TagMap)) =>
          /\ dc_out.err = ""
          /\ dc_out.val.tag = "Map"
          /\ {dc_out.val.items[i] : i \in DOMAIN dc_out.val.items} = MapContents
          /\ Len(dc_out.val.items) = Cardinality(WireKeys)
    /\ (dc_pc = "reencoded" /\ IsInput(TagMap)) =>
          dc_back = CanonicalMap(MapContents)
    /\ (dc_pc = "reencoded" /\ IsInput(TagSet)) =>
          dc_back = CanonicalSet(SetContents)

\* A Map whose wire form binds one key twice, to different values, and has
\* a smaller key after it, has been decoded and encoded again.
C21_Witness ==
    /\ dc_pc = "reencoded"
    /\ IsInput(TagMap)
    /\ Len(dc_in.elems) = 6
    /\ dc_in.elems[1] = dc_in.elems[3]
    /\ dc_in.elems[2] # dc_in.elems[4]
    /\ KeyLess(dc_in.elems[5], dc_in.elems[1])

(***************************** the encoder of Double, observed *************)
IsDoubleInput ==
    dc_in.head = <<>> /\ Len(dc_in.elems) = 1 /\ dc_in.elems[1].tag = "Double"

TheDouble == dc_in.elems[1]

\* 1e-5 < |d| < 1e8 for the decimal mant * 10^exp with mant not a multiple
\* of ten: by the place of its leading digit.
StrictlyBetween(d) ==
    /\ d.cls = "finite"
    /\ d.num # 0
    /\ Len(FmtNat(d.num)) + d.exp <= 8
    /\ \/ Len(FmtNat(d.num)) + d.exp > -4
       \/ Len(FmtNat(d.num)) + d.exp = -4 /\ d.num > 1

\* The text of the Double on the wire, between ',' and CRLF.
Body == SubSeq(dc_bytes, 2, Len(dc_bytes) - 2)

Framed == /\ Len(dc_bytes) >= 4
          /\ dc_bytes[1] = TagDouble
          /\ Drop(dc_bytes, Len(dc_bytes) - 2) = CRLF

\* Fixed decimal: an optional '-', digits, at most one '.', and nothing else.
IsFixedDecimal(t) ==
    /\ \A i \in DOMAIN t : IsDigit(t[i]) \/ t[i] = ByteDot \/ (i = 1 /\ t[i] = ByteMinus)
    /\ Cardinality({i \in DOMAIN t : t[i] = ByteDot}) <= 1
    /\ \E i \in DOMAIN t : IsDigit(t[i])

ExpAt(t) == PositionIn(t, {ByteLowerE}, 1)

\* Scientific notation: a mantissa in fixed decimal, 'e', an exponent.
IsScientific(t) ==
    /\ ExpAt(t) > 1
    /\ ExpAt(t) < Len(t)
    /\ \A i \in (ExpAt(t) + 2)..Len(t) : IsDigit(t[i])

\* C22 (as stated): a Double strictly between 1e-5 and 1e8 in absolute value
\* is rendered as fixed decimal; every other Double is rendered in scientific
\* notation whose exponent carries an explicit '+' or '-'.
C22_SignOnExponent ==
    (dc_pc = "wire" /\ IsDoubleInput) =>
       /\ Framed
       /\ IF StrictlyBetween(TheDouble)
          THEN IsFixedDecimal(Body)
          ELSE /\ IsScientific(Body)
               /\ Body[ExpAt(Body) + 1] \in {BytePlus, ByteMinus}

\* C22: a Double strictly between 1e-5 and 1e8 in absolute value is rendered
\* as fixed decimal, without a '+'; every other finite Double is rendered in
\* scientific notation with the sign of the value, '+' or '-', before the
\* mantissa and an exponent that carries a '-' when it is negative and no
\* sign otherwise; both read back as the value.  The infinities are rendered
\* `+inf` and `-inf`, NaN is rendered `NaN`.
C22_SignOnValue ==
    (dc_pc = "wire" /\ IsDoubleInput) =>
       /\ Framed
       /\ CASE StrictlyBetween(TheDouble) ->
                 /\ IsFixedDecimal(Body)
                 /\ (Body[1] = ByteMinus) = TheDouble.bool
                 /\ parse_f64(Body) = [ok |-> TRUE, val |-> TheDouble]
            [] TheDouble.cls = "finite" /\ ~StrictlyBetween(TheDouble) ->
                 /\ IsScientific(Body)
                 /\ Body[1] = (IF TheDouble.bool THEN ByteMinus ELSE BytePlus)
                 /\ IsFixedDecimal(SubSeq(Body, 2, ExpAt(Body) - 1))
                 /\ \/ IsDigit(Body[ExpAt(Body) + 1])
                    \/ Body[ExpAt(Body) + 1] = ByteMinus /\ ExpAt(Body) + 1 < Len(Body)
                 /\ parse_f64(Body) = [ok |-> TRUE, val |-> TheDouble]
            [] TheDouble.cls = "inf" ->
                 Body = <<IF TheDouble.bool THEN ByteMinus ELSE BytePlus>>
                        \o <<105, 110, 102>>
            [] OTHER -> Body = <<78, 97, 78>>
       /\ TheDouble = Double(FALSE, 399, -2) => dc_bytes = <<TagDouble, 51, 46, 57, 57>> \o CRLF
       /\ TheDouble = Double(FALSE, 1234, 5) =>
             dc_bytes = <<TagDouble, BytePlus, 49, 46, 50, 51, 52, ByteLowerE, 56>> \o CRLF
       /\ TheDouble = Double(TRUE, 74, -8) =>
             dc_bytes = <<TagDouble, ByteMinus, 55, 46, 52, ByteLowerE, ByteMinus, 55>> \o CRLF

\* 1e8 itself and 1e-5 itself have been rendered, and so has a value on
\* either side of each.
C22_Witness ==
    /\ dc_pc = "wire"
    /\ IsDoubleInput
    /\ TheDouble \in {Double(FALSE, 1, 8), Double(FALSE, 1, -5)}
    /\ StrictlyBetween(Double(FALSE, 1234, 4))
    /\ ~StrictlyBetween(Double(FALSE, 1234, 5))
    /\ StrictlyBetween(Double(FALSE, 74, -6))
    /\ ~StrictlyBetween(Double(FALSE, 74, -7))

(***************************** malformed lengths, observed *****************)
\* C23: a BulkString or Array header that declares a length below -1, and a
\* BulkError, Map or Set header that declares a negative length, is reported
\* WrongFormat once its CRLF is in the buffer, whatever follows it; it is
\* never reported NotComplete.
C23_NegativeLengthIsMalformed ==
    (dc_pc = "parsed" /\ dc_in \in NegativeInputs) => dc_out.err = "WrongFormat"

\* `$-2\r\n` alone has been decoded, and so has a negative Array header with
\* a lone '\r' behind it, inside an Array.
C23_Witness ==
    /\ dc_pc = "parsed"
    /\ \/ dc_bytes = Header(TagBulkString, FmtInt(-2))
       \/ dc_bytes = Header(TagArray, FmtNat(1)) \o Header(TagArray, FmtInt(-3))
                        \o <<CR>>
    /\ dc_out.err = "WrongFormat"

(***************************** line ends, observed *************************)
\* C24: in every field that CRLF ends, a '\r' with a byte other than '\n'
\* behind it in the buffer is reported WrongFormat, not NotComplete; a '\r'
\* that is the last byte of the buffer is reported NotComplete, not
\* WrongFormat.
C24_LoneCarriageReturn ==
    (dc_pc = "parsed" /\ dc_in \in LoneCRInputs) =>
       dc_out.err = (IF dc_in.tail = <<CR>> THEN "NotComplete" ELSE "WrongFormat")

\* A BulkString payload inside a Map has been decoded with '\r' and a byte
\* other than '\n' behind it.
C24_Witness ==
    /\ dc_pc = "parsed"
    /\ dc_in \in LoneCRInputs
    /\ dc_bytes = Header(TagMap, FmtNat(1)) \o SerializeInteger(Integer(7))
                     \o Header(TagBulkString, FmtNat(1)) \o <<97, CR, 97>>
    /\ dc_out.err = "WrongFormat"

(***************************** declared counts, observed *******************)
\* The input is a composite with values behind its header.
IsComposite == IsInput(TagArray) \/ IsInput(TagMap) \/ IsInput(TagSet)

\* The count the header declares.
Declared == parse_i64(SubSeq(dc_in.head, 2, Len(dc_in.head) - 2)).n

Returned == dc_pc = "parsed" /\ IsComposite /\ dc_out.err = ""

\* C25 (as stated): a composite the decoder returns has as many elements as
\* its header declares: N elements for an Array or a Set, N pairs for a Map.
C25_ExactCount ==
    Returned => Len(dc_out.val.items) = Declared

\* C25: a composite is returned when the wire holds as many elements (pairs,
\* for a Map) as its header declares.  An Array holds them all; a Set holds
\* the distinct ones and a Map one pair for each distinct key, which is the
\* declared count when nothing repeats and less when something does.
C25_CountOfDistinct ==
    Returned =>
       /\ IsInput(TagArray) =>
             /\ Len(dc_in.elems) = Declared
             /\ dc_out.val.items = dc_in.elems
       /\ IsInput(TagSet) =>
             /\ Len(dc_in.elems) = Declared
             /\ Len(dc_out.val.items) = Cardinality(SetContents)
       /\ IsInput(TagMap) =>
             /\ Len(dc_in.elems) = 2 * Declared
             /\ Len(dc_out.val.items) = Cardinality(WireKeys)
       /\ Len(dc_out.val.items) <= Declared

\* A Set that declares two elements and repeats one has been returned.
C25_Witness ==
    /\ Returned
    /\ IsInput(TagSet)
    /\ Declared = 2
    /\ dc_in.elems[1] = dc_in.elems[2]

(***************************** keys on the wire, observed ******************)
\* C26: decoding a Map one of whose keys, or a Set one of whose elements, is
\* a complete Array, Double, Map or Set is reported WrongFormat: no value is
\* returned and NotComplete is not reported, whatever follows the key.
C26_UnsupportedKeyIsMalformed ==
    (dc_pc = "parsed" /\ dc_in \in BadKeyInputs) => dc_out.err = "WrongFormat"

\* A Map that declares one pair has been decoded with a Double for its key
\* and nothing behind it: the bytes of a value have yet to come.
C26_Witness ==
    /\ dc_pc = "parsed"
    /\ dc_in \in BadKeyInputs
    /\ dc_bytes = Header(TagMap, FmtNat(1)) \o SerializeDouble(Double(FALSE, 399, -2))
    /\ dc_out.err = "WrongFormat"

(***************************** the frame of the storage, observed **********)
\* C27: executing SET k v changes the entry of k and leaves the entry of
\* every other key as it was; executing GET, ECHO or COMMAND leaves every
\* entry as it was.
C27_StorageFrame ==
    cv_pc = "executed" =>
       IF cv_out.cmd.op = "Set"
       THEN /\ DOMAIN cv_res.st = DOMAIN cv_st \cup {cv_out.cmd.key}
            /\ cv_res.st[cv_out.cmd.key] = cv_out.cmd.value
            /\ \A k \in DOMAIN cv_st \ {cv_out.cmd.key} : cv_res.st[k] = cv_st[k]
       ELSE cv_res.st = cv_st

\* A SET has replaced the entry of a key in a storage that holds another
\* key too.
C27_Witness ==
    /\ cv_pc = "executed"
    /\ cv_out.cmd.op = "Set"
    /\ cv_out.cmd.key \in DOMAIN cv_st
    /\ cv_st[cv_out.cmd.key] # cv_out.cmd.value
    /\ DOMAIN cv_st # {cv_out.cmd.key}

(***************************** declared lengths, observed ******************)
\* The length the header of the input declares has ten digits or more: the
\* buffer holds fewer bytes.
DeclaresMore ==
    LET h == dc_in.head
    IN PositionIn(h, {CR}, 1) # 0 /\ Len(h) >= 12 /\ IsDigit(h[Len(h) - 11])

\* C28: for every BulkString header that declares a length from 0 to
\* i64::MAX and every BulkError header that declares one from 0 to
\* usize::MAX, the decoder does not panic, in the addition of its
\* completeness check or in splitting the buffer past its end: a length the
\* buffer does not hold is reported NotComplete.
C28_NoPanicOnLength ==
    (dc_pc = "parsed" /\ dc_in \in LengthInputs) =>
       /\ dc_out.err # "Panic"
       /\ DeclaresMore => dc_out.err = "NotComplete"

(***************************** one connection, observed ********************)
\* The SETs on key that connection c had executed when the command it is
\* replying to executed.
OwnSets(c, key) ==
    {i \in 1..obs[c].at : setlog[i].conn = c /\ setlog[i].key = key}

LastOf(is) == CHOOSE i \in is : \A j \in is : j <= i

=============================================================================
